---------------------------- MODULE Spec2Model ----------------------------
(***************************************************************************)
(* TPC-C engine of runtime/tpcc/pardisgen/TpccGenSC.cpp: nine multi-index  *)
(* table stores, the five transaction procedures and the dispatch loop of  *)
(* main().                                                                 *)
(*                                                                         *)
(* Representation.                                                         *)
(*  - A row is a record whose fields carry the TPC-C column names; the     *)
(*    comment at each row constructor gives the source field (_1, _2, ..). *)
(*    Address, phone and "since" columns, which no transaction reads or    *)
(*    writes, are left out of the rows.                                    *)
(*  - A PString is a sequence of character codes.                          *)
(*  - A double is an integer in fixed point: money in units of 1/10000,    *)
(*    rates (tax, discount) in units of 1/100 (One is 1.0).                *)
(*  - A store is [rows, idx]: rows maps a handle (the pinned row slot) to  *)
(*    the row, idx[i] is the set of <<key, handle>> entries of index i,    *)
(*    the key being the one the index computed when the row was linked.    *)
(***************************************************************************)
EXTENDS Integers, Sequences, FiniteSets, TLC

\* the null pointer; handles start at 1
NULL == 0

(* ------------------------------ bounds --------------------------------- *)

\* number of programs of the list the dispatch loop is followed for
MaxPrograms == 2

\* number of rows the loaders are followed for
MaxLoadRows == 2

\* largest NUMWARE and NUMPROG the table sizes are computed for
MaxWare == 17
MaxProg == 5

(* ------------------------- program constants --------------------------- *)

numWare == 2
numPrograms == 100
NumDistricts == 10
Replenish == 91
StockLevelWindow == 20
NoCarrier == -1
One == 100

(* ------------------------------ strings -------------------------------- *)

Take(s, n) == IF Len(s) <= n THEN s ELSE SubSeq(s, 1, n)

\* strstr(hay, needle) != NULL
Contains(hay, needle) ==
  \E k \in 0..(Len(hay) - Len(needle)) :
     \A j \in 1..Len(needle) : hay[k + j] = needle[j]

ToLower(c) == IF c >= 65 /\ c <= 90 THEN c + 32 ELSE c

\* strcmpi(a, b) < 0 : case-insensitive lexicographic order
StrcmpiLess(a, b) ==
  \E k \in 1..(Len(a) + 1) :
     /\ k <= Len(b)
     /\ \A j \in 1..(k - 1) : j <= Len(a) /\ ToLower(a[j]) = ToLower(b[j])
     /\ \/ k = Len(a) + 1
        \/ k <= Len(a) /\ ToLower(a[k]) < ToLower(b[k])

Digit(d) == 48 + d

RECURSIVE DecDigits(_)
DecDigits(n) == IF n < 10 THEN <<Digit(n)>>
                ELSE DecDigits(n \div 10) \o <<Digit(n % 10)>>

\* printf "%d"
FmtInt(n) == IF n < 0 THEN <<45>> \o DecDigits(0 - n) ELSE DecDigits(n)

(* -------------------- index key extractors and comparators -------------- *)
(* For a HashIndex the key is the tuple of the fields its hash() folds and  *)
(* its cmp() compares; for an ArrayIndex it is the slot hash() computes.    *)

\* order_line primary: (ol_o_id, ol_d_id, ol_w_id, ol_number) = _1.._4
SEntry10_IIIIIITIDS_Idx1234(x) == <<x.ol_o_id, x.ol_d_id, x.ol_w_id, x.ol_number>>

\* order_line secondary: (ol_o_id, ol_d_id, ol_w_id) = _1.._3
SEntry10_IIIIIITIDS_Idx123(x) == <<x.ol_o_id, x.ol_d_id, x.ol_w_id>>

\* order secondary (tree buckets): (o_d_id, o_w_id, o_c_id) = _2, _3, _4
SEntry8_IIIITIIB_Idx234(x) == <<x.o_d_id, x.o_w_id, x.o_c_id>>

\* order primary: (o_id, o_d_id, o_w_id) = _1, _2, _3
SEntry8_IIIITIIB_Idx123(x) == <<x.o_id, x.o_d_id, x.o_w_id>>

\* new_order primary: (no_o_id, no_d_id, no_w_id) = _1, _2, _3
SEntry3_III_Idx123(x) == <<x.no_o_id, x.no_d_id, x.no_w_id>>

\* new_order secondary (tree buckets): (no_d_id, no_w_id) = _2, _3
SEntry3_III_Idx23(x) == <<x.no_d_id, x.no_w_id>>

\* history: hash() folds all eight fields
SEntry8_IIIIITDS_Idx(x) ==
  <<x.h_c_id, x.h_c_d_id, x.h_c_w_id, x.h_d_id, x.h_w_id, x.h_date, x.h_amount, x.h_data>>

\* customer secondary: (c_d_id, c_w_id, c_last) = _2, _3, _6
SEntry21_IIISSSSSSSSSTSDDDDIIS_Idx236(x) == <<x.c_d_id, x.c_w_id, x.c_last>>

\* faulty variant: the comparison of no_o_id is the other way round
SEntry3_III_Idx23_OrderingReversed(x, y) ==
  IF x.no_o_id = y.no_o_id THEN 0 ELSE IF x.no_o_id > y.no_o_id THEN -1 ELSE 1

\* ordering inside a new_order tree bucket: by no_o_id (_1)
SEntry3_III_Idx23_Ordering(x, y) ==
  IF x.no_o_id = y.no_o_id THEN 0 ELSE IF x.no_o_id > y.no_o_id THEN 1 ELSE -1

\* ordering inside an order tree bucket: by o_id (_1)
SEntry8_IIIITIIB_Idx234_Ordering(x, y) ==
  IF x.o_id = y.o_id THEN 0 ELSE IF x.o_id > y.o_id THEN 1 ELSE -1

\* warehouse slot: (w_id - 1)
SEntry9_ISSSSSSDD_Idx1f1t2(x) == 0 * 1 + (x.w_id - 1)

\* item slot: (i_id - 1)
SEntry5_IISDS_Idx1f1t100001(x) == 0 * 100000 + (x.i_id - 1)

\* district slot: ((d_id - 1)) * 1 + (d_w_id - 1)
SEntry11_IISSSSSSDDI_Idx1f1t11_2f1t2(x) ==
  (0 * 10 + (x.d_id - 1)) * 1 + (x.d_w_id - 1)

\* customer slot: ((c_id - 1) * 10 + (c_d_id - 1)) * 1 + (c_w_id - 1)
SEntry21_IIISSSSSSSSSTSDDDDIIS_Idx1f1t3001_2f1t11_3f1t2(x) ==
  ((0 * 3000 + (x.c_id - 1)) * 10 + (x.c_d_id - 1)) * 1 + (x.c_w_id - 1)

\* stock slot: ((s_i_id - 1)) * 1 + (s_w_id - 1)
SEntry17_IIISSSSSSSSSSIIIS_Idx1f1t100001_2f1t2(x) ==
  (0 * 100000 + (x.s_i_id - 1)) * 1 + (x.s_w_id - 1)

IdxKey(fn, x) ==
  CASE fn = "SEntry10_IIIIIITIDS_Idx1234" -> SEntry10_IIIIIITIDS_Idx1234(x)
    [] fn = "SEntry10_IIIIIITIDS_Idx123" -> SEntry10_IIIIIITIDS_Idx123(x)
    [] fn = "SEntry8_IIIITIIB_Idx234" -> SEntry8_IIIITIIB_Idx234(x)
    [] fn = "SEntry8_IIIITIIB_Idx123" -> SEntry8_IIIITIIB_Idx123(x)
    [] fn = "SEntry3_III_Idx123" -> SEntry3_III_Idx123(x)
    [] fn = "SEntry3_III_Idx23" -> SEntry3_III_Idx23(x)
    [] fn = "SEntry8_IIIIITDS_Idx" -> SEntry8_IIIIITDS_Idx(x)
    [] fn = "SEntry21_IIISSSSSSSSSTSDDDDIIS_Idx236" ->
         SEntry21_IIISSSSSSSSSTSDDDDIIS_Idx236(x)
    [] fn = "SEntry9_ISSSSSSDD_Idx1f1t2" -> SEntry9_ISSSSSSDD_Idx1f1t2(x)
    [] fn = "SEntry5_IISDS_Idx1f1t100001" -> SEntry5_IISDS_Idx1f1t100001(x)
    [] fn = "SEntry11_IISSSSSSDDI_Idx1f1t11_2f1t2" ->
         SEntry11_IISSSSSSDDI_Idx1f1t11_2f1t2(x)
    [] fn = "SEntry21_IIISSSSSSSSSTSDDDDIIS_Idx1f1t3001_2f1t11_3f1t2" ->
         SEntry21_IIISSSSSSSSSTSDDDDIIS_Idx1f1t3001_2f1t11_3f1t2(x)
    [] fn = "SEntry17_IIISSSSSSSSSSIIIS_Idx1f1t100001_2f1t2" ->
         SEntry17_IIISSSSSSSSSSIIIS_Idx1f1t100001_2f1t2(x)

IdxOrdering(ord, x, y) ==
  CASE ord = "SEntry3_III_Idx23_Ordering" -> SEntry3_III_Idx23_Ordering(x, y)
    [] ord = "SEntry8_IIIITIIB_Idx234_Ordering" -> SEntry8_IIIITIIB_Idx234_Ordering(x, y)

(* ----------------------------- store types ------------------------------ *)
(* One descriptor per index of the MultiHashMap typedef, in index order.    *)
(* arg is the last template argument: for a HashIndex 1 means unique, for   *)
(* an ArrayIndex it is the capacity, for a TreeIndex 0 makes get() return   *)
(* the least row of the bucket and 1 the greatest.                          *)

Hash(fn, arg) == [kind |-> "HashIndex", fn |-> fn, ord |-> "", arg |-> arg]
Tree(fn, ord, arg) == [kind |-> "TreeIndex", fn |-> fn, ord |-> ord, arg |-> arg]
Array(fn, arg) == [kind |-> "ArrayIndex", fn |-> fn, ord |-> "", arg |-> arg]

\* a new_order store whose tree index hands out the greatest row of a bucket
newOrderTblStoreTypeGreatest ==
  << Hash("SEntry3_III_Idx123", 1),
     Tree("SEntry3_III_Idx23", "SEntry3_III_Idx23_Ordering", 1) >>

\* typedef of lines 1466-1470
newOrderTblStoreType ==
  << Hash("SEntry3_III_Idx123", 1),
     Tree("SEntry3_III_Idx23", "SEntry3_III_Idx23_Ordering", 0) >>

\* faulty variant: the history index is declared unique
historyTblStoreTypeUnique == << Hash("SEntry8_IIIIITDS_Idx", 1) >>

historyTblStoreType == << Hash("SEntry8_IIIIITDS_Idx", 0) >>

warehouseTblStoreType == << Array("SEntry9_ISSSSSSDD_Idx1f1t2", 1) >>

itemTblStoreType == << Array("SEntry5_IISDS_Idx1f1t100001", 100000) >>

orderTblStoreType ==
  << Hash("SEntry8_IIIITIIB_Idx123", 1),
     Tree("SEntry8_IIIITIIB_Idx234", "SEntry8_IIIITIIB_Idx234_Ordering", 1) >>

districtTblStoreType == << Array("SEntry11_IISSSSSSDDI_Idx1f1t11_2f1t2", 10) >>

\* faulty variant: the primary index of order_line leaves ol_number out of its key
orderLineTblStoreTypeIdx123 ==
  << Hash("SEntry10_IIIIIITIDS_Idx123", 1),
     Hash("SEntry10_IIIIIITIDS_Idx123", 0) >>

orderLineTblStoreType ==
  << Hash("SEntry10_IIIIIITIDS_Idx1234", 1),
     Hash("SEntry10_IIIIIITIDS_Idx123", 0) >>

customerTblStoreType ==
  << Array("SEntry21_IIISSSSSSSSSTSDDDDIIS_Idx1f1t3001_2f1t11_3f1t2", 30000),
     Hash("SEntry21_IIISSSSSSSSSTSDDDDIIS_Idx236", 0) >>

stockTblStoreType == << Array("SEntry17_IIISSSSSSSSSSIIIS_Idx1f1t100001_2f1t2", 100000) >>

(* ------------------------- MultiHashMap operations ---------------------- *)
(* Index ids are the source's (0 is the primary index).                     *)

EmptyStore(T) == [rows |-> <<>>, idx |-> [i \in DOMAIN T |-> {}]]

Handles(st) == DOMAIN st.rows

NewHandle(st) == CHOOSE h \in 1..(Cardinality(Handles(st)) + 1) : h \notin Handles(st)

\* the entries of index i after row `row` at handle h is linked into it
IdxLink(d, entries, row, h) ==
  LET k == IdxKey(d.fn, row)
      unique == \/ d.kind = "ArrayIndex"
                \/ d.kind = "HashIndex" /\ d.arg = 1
  IN {e \in entries : e[2] # h /\ ~(unique /\ e[1] = k)} \cup {<<k, h>>}

\* add(row): take a slot, link the row into every index
StoreAdd(st, T, row) ==
  LET h == NewHandle(st)
  IN [rows |-> (h :> row) @@ st.rows,
      idx |-> [i \in DOMAIN T |-> IdxLink(T[i], st.idx[i], row, h)]]

\* the handles index i holds under the key of the probe
StoreSlice(st, T, i, probe) ==
  LET d == T[i + 1]
      k == IdxKey(d.fn, probe)
  IN {e[2] : e \in {e \in st.idx[i + 1] :
                      /\ e[1] = k
                      /\ d.kind = "ArrayIndex" => (k >= 0 /\ k < d.arg)}}

\* get(probe, i): a handle or NULL
StoreGet(st, T, i, probe) ==
  LET d == T[i + 1]
      cand == StoreSlice(st, T, i, probe)
  IN IF cand = {} THEN NULL
     ELSE IF d.kind = "TreeIndex"
       THEN CHOOSE h \in cand : \A g \in cand :
              IF d.arg = 0
                THEN IdxOrdering(d.ord, st.rows[h], st.rows[g]) <= 0
                ELSE IdxOrdering(d.ord, st.rows[h], st.rows[g]) >= 0
       ELSE CHOOSE h \in cand : TRUE

\* del(handle): unlink from every index, free the slot
StoreDel(st, T, h) ==
  [rows |-> [g \in Handles(st) \ {h} |-> st.rows[g]],
   idx |-> [i \in DOMAIN T |-> {e \in st.idx[i] : e[2] # h}]]

\* update(handle): every index is brought back in line with the row's fields
StoreUpdate(st, T, h) ==
  [st EXCEPT !.idx = [i \in DOMAIN T |-> IdxLink(T[i], st.idx[i], st.rows[h], h)]]

\* a write through the row pointer: the indices are not told
RowSet(st, h, row) == [st EXCEPT !.rows[h] = row]

\* the rows of a store, as the primary index holds them
PrimaryRows(st) == {st.rows[e[2]] : e \in st.idx[1]}

(* ------------------------------ loaded data ----------------------------- *)

s_BAR == <<66, 65, 82>>
s_OUGHT == <<79, 85, 71, 72, 84>>
s_GC == <<71, 67>>
s_BC == <<66, 67>>
s_original == <<111, 114, 105, 103, 105, 110, 97, 108>>
s_B == <<66>>
s_G == <<71>>

\* the one warehouse the direct-array indices have a slot for (capacity 1)
LoadedWarehouses == {1}
LoadedDistricts == 1..NumDistricts
\* districts that are loaded with customers, and the customers of each
CustomerDistricts == {1, 2}
CustomerIds == {1, 2, 3}
LoadedItems == {1, 2}

\* c_first: "a", "B", "c" in district 1 and "d", "C", "e" in district 2
CustFirst(d, c) ==
  IF d = 1 THEN (IF c = 1 THEN <<97>> ELSE IF c = 2 THEN <<66>> ELSE <<99>>)
           ELSE (IF c = 1 THEN <<100>> ELSE IF c = 2 THEN <<67>> ELSE <<101>>)

\* district 1 has three BAR, district 2 has two BAR and one OUGHT
CustLast(d, c) == IF d = 2 /\ c = 3 THEN s_OUGHT ELSE s_BAR

WarehouseRow(w) ==
  [w_id |-> w, w_name |-> <<87, 48 + w>>, w_tax |-> 10, w_ytd |-> 300000]

DistrictRow(d, w, next) ==
  [d_id |-> d, d_w_id |-> w, d_name |-> <<68, 48 + d>>, d_tax |-> 5,
   d_ytd |-> 30000, d_next_o_id |-> next]

CustomerRow(c, d, w) ==
  [c_id |-> c, c_d_id |-> d, c_w_id |-> w, c_first |-> CustFirst(d, c),
   c_last |-> CustLast(d, c), c_credit |-> IF c = 2 THEN s_BC ELSE s_GC,
   c_discount |-> IF c = 1 THEN 0 ELSE 10, c_balance |-> -100000,
   c_ytd_payment |-> 100000, c_payment_cnt |-> 1, c_delivery_cnt |-> 0,
   c_data |-> IF c = 2 THEN [k \in 1..490 |-> 97 + (k % 26)] ELSE <<120, 48 + c>>]

ItemRow(it) ==
  [i_id |-> it, i_im_id |-> it, i_name |-> <<73, 48 + it>>, i_price |-> it * 10000,
   i_data |-> IF it = 1 THEN s_original ELSE <<122>>]

StockRow(it, w) ==
  [s_i_id |-> it, s_w_id |-> w, s_quantity |-> IF it = 1 THEN 5 ELSE 20,
   s_dist |-> [k \in 1..10 |-> <<115, 48 + it, 48 + k>>],
   s_ytd |-> 0, s_order_cnt |-> 0, s_remote_cnt |-> 0,
   s_data |-> s_original \o <<48 + it>>]

OrderRow(o, d, w, c, entry, carrier, cnt, local) ==
  [o_id |-> o, o_d_id |-> d, o_w_id |-> w, o_c_id |-> c, o_entry_d |-> entry,
   o_carrier_id |-> carrier, o_ol_cnt |-> cnt, o_all_local |-> local]

NewOrderRow(o, d, w) == [no_o_id |-> o, no_d_id |-> d, no_w_id |-> w]

OrderLineRow(o, d, w, n, it, sw, deliv, qty, amount, info) ==
  [ol_o_id |-> o, ol_d_id |-> d, ol_w_id |-> w, ol_number |-> n, ol_i_id |-> it,
   ol_supply_w_id |-> sw, ol_delivery_d |-> deliv, ol_quantity |-> qty,
   ol_amount |-> amount, ol_dist_info |-> info]

HistoryRow(c, cd, cw, d, w, date, amount, data) ==
  [h_c_id |-> c, h_c_d_id |-> cd, h_c_w_id |-> cw, h_d_id |-> d, h_w_id |-> w,
   h_date |-> date, h_amount |-> amount, h_data |-> data]

RECURSIVE LoadRows(_, _, _)
LoadRows(st, T, rows) ==
  IF rows = <<>> THEN st
  ELSE LoadRows(StoreAdd(st, T, Head(rows)), T, Tail(rows))

\* a set of rows in some order
RECURSIVE SeqOf(_)
SeqOf(S) == IF S = {} THEN <<>>
            ELSE LET x == CHOOSE x \in S : TRUE IN <<x>> \o SeqOf(S \ {x})

Load(T, S) == LoadRows(EmptyStore(T), T, SeqOf(S))

\* The loaded orders <<o_id, d_id, c_id, delivered, <<item of each line>> >>: every
\* loaded customer has one order; district 1 has none pending, the last two
\* orders of district 2 are pending.
LoadedOrderList ==
  { <<1, 1, 2, TRUE, <<1>> >>, <<2, 1, 3, TRUE, <<1, 2>> >>, <<3, 1, 1, TRUE, <<2>> >>,
    <<1, 2, 1, TRUE, <<2>> >>, <<2, 2, 2, FALSE, <<1>> >>, <<3, 2, 3, FALSE, <<2, 2>> >> }

LoadedNextOrderId(d) == IF d \in CustomerDistricts THEN 4 ELSE 1

LoadedOrders ==
  { OrderRow(o[1], o[2], 1, o[3], 1, IF o[4] THEN 3 ELSE NoCarrier, Len(o[5]), 1)
      : o \in LoadedOrderList }

LoadedNewOrders == { NewOrderRow(o[1], o[2], 1) : o \in {o \in LoadedOrderList : ~o[4]} }

LoadedOrderLines ==
  UNION { { OrderLineRow(o[1], o[2], 1, n, o[5][n], 1, IF o[4] THEN 1 ELSE 0, 5,
                         5 * o[5][n] * 10000, <<115, 48 + o[5][n], 48 + o[2]>>)
              : n \in 1..Len(o[5]) }
          : o \in LoadedOrderList }

LoadedHistory ==
  { HistoryRow(1, 1, 1, 1, 1, 1, 100000, <<87, 49, 32, 32, 32, 32, 68, 49>>) }

(* ------------------------------ NewOrderTx ------------------------------ *)
(* db is the record of the nine stores.  The parameters keep the source's   *)
(* names: x273 datetime, x275 w_id, x276 d_id, x277 c_id, x278 o_ol_cnt,    *)
(* x279 o_all_local, x280 itemid[], x281 supware[], x282 quantity[];        *)
(* the results x283 price[], x284 iname[], x285 stock[], x286 bg[],         *)
(* x287 amt[] are the arrays of the program record.                         *)

Unset(n) == [k \in 1..n |-> NULL]

\* a loop that goes on to the last line after a failed lookup
NewOrderItemLoopRunsToEnd(x289, x278, x297) == x289 < x278

\* lines 1791-1803: ite16243 is x297 when x289 < x278 and 0 otherwise, and
\* the loop breaks when it is 0
NewOrderItemLoopRuns(x289, x278, x297) == x289 < x278 /\ x297 # 0

\* while (x289 < x278 && x297) { item lookup of line x289 }
RECURSIVE NewOrderItemLoop(_, _, _, _)
NewOrderItemLoop(db, x280, x278, r) ==
  IF NewOrderItemLoopRuns(r.x289, x278, r.x297)
    THEN LET x11168 == StoreGet(db.itemTbl, itemTblStoreType, 0,
                                [i_id |-> x280[r.x289 + 1]])
         IN NewOrderItemLoop(db, x280, x278,
              IF x11168 = NULL
                THEN [r EXCEPT !.x297 = 0, !.x289 = @ + 1]
                ELSE LET it == db.itemTbl.rows[x11168]
                     IN [r EXCEPT !.x284[r.x289 + 1] = it.i_name,
                                  !.x283[r.x289 + 1] = it.i_price,
                                  !.idata[r.x289 + 1] = it.i_data,
                                  !.x289 = @ + 1])
    ELSE r

\* faulty variant: the write phase runs whatever the item loop found
NewOrderWritesAlways(x326) == TRUE

\* if (x326): the write phase runs only when no item lookup failed
NewOrderWrites(x326) == x326 # 0

\* faulty variant: the district keeps its next_o_id
DistrictKeepOrderId(d) == d

\* faulty variant: the district skips an order id
DistrictSkipOrderId(d) == [d EXCEPT !.d_next_o_id = @ + 2]

\* a district whose next order id counts down
DistrictCountsDown(d) == [d EXCEPT !.d_next_o_id = @ - 1]

\* x11198->_11 += 1
DistrictTakeOrderId(d) == [d EXCEPT !.d_next_o_id = @ + 1]

\* faulty variant: the order row is born with carrier 0
NewOrderOrderRowCarrierZero(x8112, x276, x275, x277, x273, x278, x279) ==
  OrderRow(x8112, x276, x275, x277, x273, 0, x278, IF x279 > 0 THEN 1 ELSE 0)

\* an order row that is all-local whatever flag the program record carries
NewOrderOrderRowAlwaysLocal(x8112, x276, x275, x277, x273, x278, x279) ==
  OrderRow(x8112, x276, x275, x277, x273, NoCarrier, x278, 1)

\* an order row that takes the district's order id after the increment
NewOrderOrderRowNextId(x8112, x276, x275, x277, x273, x278, x279) ==
  OrderRow(x8112 + 1, x276, x275, x277, x273, NoCarrier, x278, IF x279 > 0 THEN 1 ELSE 0)

\* an order row in the name of a customer that has no row
NewOrderOrderRowNoCustomer(x8112, x276, x275, x277, x273, x278, x279) ==
  OrderRow(x8112, x276, x275, x277 + 3, x273, NoCarrier, x278, IF x279 > 0 THEN 1 ELSE 0)

\* the order row of line 1842
NewOrderOrderRow(x8112, x276, x275, x277, x273, x278, x279) ==
  OrderRow(x8112, x276, x275, x277, x273, NoCarrier, x278, IF x279 > 0 THEN 1 ELSE 0)

\* a chain that starts one field late: district 1 takes s_dist_02
StockDistInfoShifted(x11223, x276) ==
  IF x276 < 10 THEN x11223.s_dist[x276 + 1] ELSE x11223.s_dist[10]

\* the chain of if (x276 == k) that picks the district string of a stock row
StockDistInfo(x11223, x276) ==
  IF x276 = 1 THEN x11223.s_dist[1]
  ELSE IF x276 = 2 THEN x11223.s_dist[2]
  ELSE IF x276 = 3 THEN x11223.s_dist[3]
  ELSE IF x276 = 4 THEN x11223.s_dist[4]
  ELSE IF x276 = 5 THEN x11223.s_dist[5]
  ELSE IF x276 = 6 THEN x11223.s_dist[6]
  ELSE IF x276 = 7 THEN x11223.s_dist[7]
  ELSE IF x276 = 8 THEN x11223.s_dist[8]
  ELSE IF x276 = 9 THEN x11223.s_dist[9]
  ELSE x11223.s_dist[10]

\* "B" when x11191->_14 (the customer's c_credit) and the stock's s_data both
\* contain "original"
BrandGrade(x11191, x11223) ==
  IF Contains(x11191.c_credit, s_original)
    THEN (IF Contains(x11223.s_data, s_original) THEN s_B ELSE s_G)
    ELSE s_G

\* a stock that is refilled only when the order takes more than it holds
StockTakeBelow(x8164, ol_quantity) ==
  IF x8164 < ol_quantity THEN (x8164 - ol_quantity) + Replenish
                         ELSE x8164 - ol_quantity

\* a stock that is never refilled
StockTakeNoRefill(x8164, ol_quantity) == x8164 - ol_quantity

\* x11223->_3 = x8164 - ol_quantity; if (x8164 <= ol_quantity) x11223->_3 += 91
StockTake(x8164, ol_quantity) ==
  IF x8164 <= ol_quantity THEN (x8164 - ol_quantity) + Replenish
                          ELSE x8164 - ol_quantity

\* ((ol_quantity * price) * ((1.0 + w_tax) + d_tax)) * (1.0 - c_discount)
OlAmount(ol_quantity, x433, x8188, x8189, x8187) ==
  ((((ol_quantity * x433) * ((One + x8188) + x8189)) \div One) * (One - x8187)) \div One

\* faulty variant: the line number is the 0-based loop index
OlNumberZeroBased(x289) == x289

\* the ol_number of line 1993: x17013->_4 = (x446+(1))
OlNumber(x289) == x289 + 1

\* lines 1864-1996 for line k = x289 + 1, whose stock row is at x11223: the
\* stock update, the order_line insert and the results of the line
NewOrderLine(a, r, k, x11223, stock, ol_amount) ==
  [x289 |-> r.x289 + 1, fault |-> FALSE,
   db |-> [r.db EXCEPT
             !.stockTbl =
               StoreUpdate(RowSet(@, x11223,
                                  [stock EXCEPT !.s_quantity =
                                     StockTake(stock.s_quantity, a.x282[k])]),
                           stockTblStoreType, x11223),
             !.orderLineTbl =
               StoreAdd(@, orderLineTblStoreType,
                        OrderLineRow(a.x8112, a.x276, a.x275, OlNumber(r.x289), a.x280[k],
                                     a.x281[k], 0, a.x282[k], ol_amount,
                                     StockDistInfo(stock, a.x276)))],
   x285 |-> [r.x285 EXCEPT ![k] = stock.s_quantity],
   x286 |-> [r.x286 EXCEPT ![k] = BrandGrade(r.db.customerTbl.rows[a.x11191], stock)],
   x287 |-> [r.x287 EXCEPT ![k] = ol_amount],
   x352 |-> r.x352 + ol_amount]

\* one pass of the loop, with the stock lookup result x11223; a NULL x11223
\* is dereferenced unchecked at line 1864 and the run ends there
NewOrderLineAt(a, r, k, x11223) ==
  IF x11223 = NULL
    THEN [r EXCEPT !.fault = TRUE]
    ELSE NewOrderLine(a, r, k, x11223, r.db.stockTbl.rows[x11223],
                      OlAmount(a.x282[k], a.x283[k],
                               r.db.warehouseTbl.rows[a.x11194].w_tax,
                               r.db.districtTbl.rows[a.x11198].d_tax,
                               r.db.customerTbl.rows[a.x11191].c_discount))

\* the second loop: while (x289 < x278), one stock update and one order_line
\* insert per line
RECURSIVE NewOrderLineLoop(_, _)
NewOrderLineLoop(a, r) ==
  IF r.x289 < a.x278 /\ ~r.fault
    THEN NewOrderLineLoop(a,
           NewOrderLineAt(a, r, r.x289 + 1,
                          StoreGet(r.db.stockTbl, stockTblStoreType, 0,
                                   [s_i_id |-> a.x280[r.x289 + 1],
                                    s_w_id |-> a.x281[r.x289 + 1]])))
    ELSE r

\* what the procedure leaves: the stores, and the arrays of the program record
NewOrderResult(items, lines) ==
  [db |-> lines.db, x297 |-> items.x297, x283 |-> items.x283, x284 |-> items.x284,
   x285 |-> lines.x285, x286 |-> lines.x286, x287 |-> lines.x287, fault |-> lines.fault]

\* lines 1837-1847: the district gives its next_o_id x8112 to a new order row
\* and a new new_order row
NewOrderHeader(db, x273, x275, x276, x277, x278, x279, x11198, x8112) ==
  [db EXCEPT
     !.districtTbl = StoreUpdate(RowSet(@, x11198, DistrictTakeOrderId(@.rows[x11198])),
                                 districtTblStoreType, x11198),
     !.orderTbl = StoreAdd(@, orderTblStoreType,
                           NewOrderOrderRow(x8112, x276, x275, x277, x273, x278, x279)),
     !.newOrderTbl = StoreAdd(@, newOrderTblStoreType, NewOrderRow(x8112, x276, x275))]

\* the body of if (x326), with the district row x11198 looked up
NewOrderWritePhase(db, x273, x275, x276, x277, x278, x279, x280, x281, x282, items, x11198) ==
  NewOrderResult(items,
    NewOrderLineLoop(
      [x273 |-> x273, x275 |-> x275, x276 |-> x276, x278 |-> x278,
       x280 |-> x280, x281 |-> x281, x282 |-> x282, x283 |-> items.x283,
       x8112 |-> db.districtTbl.rows[x11198].d_next_o_id,
       x11191 |-> StoreGet(db.customerTbl, customerTblStoreType, 0,
                           [c_id |-> x277, c_d_id |-> x276, c_w_id |-> x275]),
       x11194 |-> StoreGet(db.warehouseTbl, warehouseTblStoreType, 0, [w_id |-> x275]),
       x11198 |-> x11198],
      [x289 |-> 0, fault |-> FALSE,
       db |-> NewOrderHeader(db, x273, x275, x276, x277, x278, x279, x11198,
                             db.districtTbl.rows[x11198].d_next_o_id),
       x285 |-> Unset(x278), x286 |-> Unset(x278), x287 |-> Unset(x278), x352 |-> 0]))

\* the procedure after its item loop
NewOrderAfterItems(db, x273, x275, x276, x277, x278, x279, x280, x281, x282, items) ==
  IF NewOrderWrites(items.x297)
    THEN NewOrderWritePhase(db, x273, x275, x276, x277, x278, x279, x280, x281, x282,
                            items,
                            StoreGet(db.districtTbl, districtTblStoreType, 0,
                                     [d_id |-> x276, d_w_id |-> x275]))
    ELSE NewOrderResult(items,
                        [db |-> db, x285 |-> Unset(x278), x286 |-> Unset(x278),
                         x287 |-> Unset(x278), fault |-> FALSE])

NewOrderTx(db, x273, x275, x276, x277, x278, x279, x280, x281, x282) ==
  NewOrderAfterItems(db, x273, x275, x276, x277, x278, x279, x280, x281, x282,
    NewOrderItemLoop(db, x280, x278,
      [x289 |-> 0, x297 |-> 1, x283 |-> Unset(x278), x284 |-> Unset(x278),
       idata |-> Unset(x278)]))

(* ------------------------------ DeliveryTx ------------------------------ *)
(* x11 datetime, x12 w_id, x13 o_carrier_id.  The result carries orderIDs   *)
(* and fault, which is TRUE when a lookup the code dereferences unchecked   *)
(* (x10698, x10722) returned NULL.                                          *)

RECURSIVE SumAmount(_, _)
SumAmount(st, H) ==
  IF H = {} THEN 0
  ELSE LET h == CHOOSE h \in H : TRUE
       IN st.rows[h].ol_amount + SumAmount(st, H \ {h})

\* the slice callback of lines 1609-1617 applied to every line of the slice
DeliveryStampLines(orderLineTbl, H, x11) ==
  LET stamped == [orderLineTbl EXCEPT !.rows =
                    [h \in DOMAIN @ |-> IF h \in H THEN [@[h] EXCEPT !.ol_delivery_d = x11]
                                                   ELSE @[h]]]
      RECURSIVE Upd(_, _)
      Upd(st, G) == IF G = {} THEN st
                    ELSE LET h == CHOOSE h \in G : TRUE
                         IN Upd(StoreUpdate(st, orderLineTblStoreType, h), G \ {h})
  IN Upd(stamped, H)

\* x10698->_6 = x13
DeliverySetCarrier(o, x13) == [o EXCEPT !.o_carrier_id = x13]

\* x10722->_17 += x70; x10722->_20 += 1
\* a credit that counts the delivery in the payment counter _19
DeliveryCreditCustomerAsPayment(c, x70) ==
  [c EXCEPT !.c_balance = @ + x70, !.c_payment_cnt = @ + 1]

DeliveryCreditCustomer(c, x70) ==
  [c EXCEPT !.c_balance = @ + x70, !.c_delivery_cnt = @ + 1]

\* lines 1620-1625: the customer x10722 of the order is credited x70
DeliveryCustomer(r, x7517, x10722, x70, db1) ==
  IF x10722 = NULL
    THEN [r EXCEPT !.db = db1, !.orderIDs[r.x18] = x7517, !.fault = TRUE]
    ELSE [r EXCEPT
            !.db = [db1 EXCEPT !.customerTbl =
                      StoreUpdate(RowSet(@, x10722,
                                         DeliveryCreditCustomer(@.rows[x10722], x70)),
                                  customerTblStoreType, x10722)],
            !.orderIDs[r.x18] = x7517]

\* lines 1601-1619: the order x10698 gets the carrier, its lines H the date
DeliveryOrder(r, x11, x12, x13, x7517, x10698, H, newOrderTbl1) ==
  IF x10698 = NULL
    THEN [r EXCEPT !.db.newOrderTbl = newOrderTbl1,
                   !.orderIDs[r.x18] = x7517, !.fault = TRUE]
    ELSE DeliveryCustomer(r, x7517,
           StoreGet(r.db.customerTbl, customerTblStoreType, 0,
                    [c_id |-> r.db.orderTbl.rows[x10698].o_c_id,
                     c_d_id |-> r.x18, c_w_id |-> x12]),
           SumAmount(r.db.orderLineTbl, H),
           [r.db EXCEPT
              !.newOrderTbl = newOrderTbl1,
              !.orderTbl = StoreUpdate(RowSet(@, x10698,
                                              DeliverySetCarrier(@.rows[x10698], x13)),
                                       orderTblStoreType, x10698),
              !.orderLineTbl = DeliveryStampLines(@, H, x11)])

\* a Delivery that deletes every pending row of the district of x10684
RECURSIVE DeliveryDelNewOrderBucket(_, _)
DeliveryDelNewOrderBucket(st, x10684) ==
  LET B == {h \in Handles(st) : /\ st.rows[h].no_d_id = st.rows[x10684].no_d_id
                                /\ st.rows[h].no_w_id = st.rows[x10684].no_w_id
                                /\ h # x10684}
  IN IF B = {} THEN StoreDel(st, newOrderTblStoreType, x10684)
     ELSE DeliveryDelNewOrderBucket(StoreDel(st, newOrderTblStoreType, CHOOSE h \in B : TRUE),
                                    x10684)

\* a Delivery that leaves the new_order row where it is
DeliveryKeepsNewOrder(st, x10684) == st

\* x3764.del(x10684) of line 1595
DeliveryDelNewOrder(st, x10684) == StoreDel(st, newOrderTblStoreType, x10684)

\* lines 1592-1600: the new_order row x10684 with order id x7517 is deleted
DeliveryNewOrder(r, x11, x12, x13, x10684, x7517) ==
  DeliveryOrder(r, x11, x12, x13, x7517,
                StoreGet(r.db.orderTbl, orderTblStoreType, 0,
                         [o_id |-> x7517, o_d_id |-> r.x18, o_w_id |-> x12]),
                StoreSlice(r.db.orderLineTbl, orderLineTblStoreType, 1,
                           [ol_o_id |-> x7517, ol_d_id |-> r.x18, ol_w_id |-> x12]),
                DeliveryDelNewOrder(r.db.newOrderTbl, x10684))

\* a loop body that leaves the loop at the first district without a pending
\* order
DeliveryDistrictAtStop(r, x11, x12, x13, x10684) ==
  IF x10684 # NULL
    THEN DeliveryNewOrder(r, x11, x12, x13, x10684,
                          r.db.newOrderTbl.rows[x10684].no_o_id)
    ELSE [r EXCEPT !.orderIDs[r.x18] = 0, !.x18 = NumDistricts]

\* the body of the loop for district x18, with the result x10684 of the
\* new_order lookup
DeliveryDistrictAt(r, x11, x12, x13, x10684) ==
  IF x10684 # NULL
    THEN DeliveryNewOrder(r, x11, x12, x13, x10684,
                          r.db.newOrderTbl.rows[x10684].no_o_id)
    ELSE [r EXCEPT !.orderIDs[r.x18] = 0]

\* the body of the loop for district x18
DeliveryDistrict(r, x11, x12, x13) ==
  DeliveryDistrictAt(r, x11, x12, x13,
                     StoreGet(r.db.newOrderTbl, newOrderTblStoreType, 1,
                              [no_d_id |-> r.x18, no_w_id |-> x12]))

\* while (x18 <= 10) { ...; x18 = x18 + 1 }
RECURSIVE DeliveryLoop(_, _, _, _)
DeliveryLoop(r, x11, x12, x13) ==
  IF r.x18 <= NumDistricts /\ ~r.fault
    THEN DeliveryLoop([DeliveryDistrict(r, x11, x12, x13) EXCEPT !.x18 = @ + 1],
                      x11, x12, x13)
    ELSE r

DeliveryTx(db, x11, x12, x13) ==
  DeliveryLoop([db |-> db, x18 |-> 1, orderIDs |-> Unset(NumDistricts), fault |-> FALSE],
               x11, x12, x13)

(* ------------------------------ StockLevelTx ---------------------------- *)
(* x85 w_id, x86 d_id, x87 threshold.  The result is unique_ol_i_id, with   *)
(* the order ids the loop probed the order_line index for.                  *)

\* a scan that starts at order id 1 when x7660 - 20 is below it
StockLevelOrderIdsFromOne(x7660) ==
  (IF x7660 - StockLevelWindow < 1 THEN 1 ELSE x7660 - StockLevelWindow)..(x7660 - 1)

\* the order ids x97 of while (x97 < x7660), from x7660 - 20
StockLevelOrderIds(x7660) == (x7660 - StockLevelWindow)..(x7660 - 1)

\* a test that also counts a stock whose quantity equals the threshold
StockLevelCountsAtThreshold(x7692, x87) == x7692 <= x87

\* if (x7692 < x87) unique_ol_i_id.insert(x7688)
StockLevelCounts(x7692, x87) == x7692 < x87

\* a transaction that writes the scanned district row back with the next
\* order id taken
StockLevelDbTakesOrderId(db, x10797) ==
  [db EXCEPT !.districtTbl =
     RowSet(@, x10797, [@.rows[x10797] EXCEPT !.d_next_o_id = @ + 1])]

\* the stores when the transaction returns: its body calls get and slice
\* only, and writes through no row pointer
StockLevelDb(db, x10797) == db

StockLevelTx(db, x85, x86, x87) ==
  LET x10797 == StoreGet(db.districtTbl, districtTblStoreType, 0,
                         [d_id |-> x86, d_w_id |-> x85])
      x7660 == db.districtTbl.rows[x10797].d_next_o_id
      probed == StockLevelOrderIds(x7660)
      lines == UNION {StoreSlice(db.orderLineTbl, orderLineTblStoreType, 1,
                                 [ol_o_id |-> x97, ol_d_id |-> x86, ol_w_id |-> x85])
                        : x97 \in probed}
      low(h) ==
        LET x7688 == db.orderLineTbl.rows[h].ol_i_id
            x10811 == StoreGet(db.stockTbl, stockTblStoreType, 0,
                               [s_i_id |-> x7688, s_w_id |-> x85])
        IN StockLevelCounts(db.stockTbl.rows[x10811].s_quantity, x87)
  IN [db |-> StockLevelDb(db, x10797), probed |-> probed,
      unique_ol_i_id |-> {db.orderLineTbl.rows[h].ol_i_id : h \in {h \in lines : low(h)}}]

(* ------------------------- customer by last name ------------------------ *)

\* the comparator handed to sort(): strcmpi(c1->_4, c2->_4) < 0
CustomerBefore(c1, c2) == StrcmpiLess(c1.c_first, c2.c_first)

\* every order std::sort may leave the sliced customers in
SortOutcomes(customerTbl, H) ==
  LET n == Cardinality(H)
  IN {p \in [1..n -> H] :
        /\ \A a, b \in 1..n : a # b => p[a] # p[b]
        /\ \A a, b \in 1..n :
             a < b => ~CustomerBefore(customerTbl.rows[p[b]], customerTbl.rows[p[a]])}

\* faulty variant: an even size is not stepped down
MedianIndexUpper(size) == size \div 2

\* x15856 = size / 2; if (size % 2 == 0) x15856 -= 1
MedianIndex(size) == IF size % 2 = 0 THEN (size \div 2) - 1 ELSE size \div 2

\* the customers sliced by (c_d_id, c_w_id, c_last) through index 1
CustomersByName(db, c_w_id, c_d_id, c_last) ==
  StoreSlice(db.customerTbl, customerTblStoreType, 1,
             [c_d_id |-> c_d_id, c_w_id |-> c_w_id, c_last |-> c_last])

\* x15846[x15856] of the sorted vector x15846 (0-based in the source)
MedianCustomer(x15846) == x15846[MedianIndex(Len(x15846)) + 1]

(* ------------------------------ OrderStatusTx --------------------------- *)
(* x129 w_id, x130 d_id, x131 by-name flag, x132 c_id, x133 c_last;         *)
(* x15846 is the vector of sliced customers as sort() left it.              *)

OrderStatusTx(db, x129, x130, x131, x132, x133, x15846) ==
  LET ite15845 == IF x131 > 0
                    THEN MedianCustomer(x15846)
                    ELSE StoreGet(db.customerTbl, customerTblStoreType, 0,
                                  [c_id |-> x132, c_d_id |-> x130, c_w_id |-> x129])
      x7733 == db.customerTbl.rows[ite15845].c_w_id
      x10901 == StoreGet(db.orderTbl, orderTblStoreType, 1,
                         [o_d_id |-> x130, o_w_id |-> x129, o_c_id |-> x7733])
  IN [db |-> db, ite15845 |-> ite15845, x10901 |-> x10901,
      x184 |-> IF x10901 = NULL THEN NULL ELSE db.orderTbl.rows[x10901].o_id]

(* ------------------------------- PaymentTx ------------------------------ *)
(* x189 datetime, x191 w_id, x192 d_id, x193 by-name flag, x194 c_w_id,     *)
(* x195 c_d_id, x196 c_id, x197 c_last, x198 h_amount; x15947 is the vector *)
(* of sliced customers as sort() left it.                                   *)

PadLeft(s, n) == IF Len(s) >= n THEN s ELSE [k \in 1..(n - Len(s)) |-> 48] \o s

\* printf "%f" of a money value: integer part, '.', six decimals
FmtDouble(v) ==
  (IF v < 0 THEN <<45>> ELSE <<>>)
    \o DecDigits((IF v < 0 THEN 0 - v ELSE v) \div 10000)
    \o <<46>>
    \o PadLeft(DecDigits((IF v < 0 THEN 0 - v ELSE v) % 10000), 4) \o <<48, 48>>

\* the date text of the payment line
IntToStrdate(d) == FmtInt(d)

\* a c_data that keeps the whole text, however long
PaymentNewDataUncut(x7877, x195, x194, x192, x191, x198, x189, x7873) ==
  FmtInt(x7877) \o <<32>> \o FmtInt(x195) \o <<32>> \o FmtInt(x194) \o <<32>>
    \o FmtInt(x192) \o <<32>> \o FmtInt(x191) \o <<32, 36>> \o FmtDouble(x198)
    \o <<32>> \o IntToStrdate(x189) \o <<32, 124, 32>> \o x7873

\* snprintf(c_new_data, 501, "%d %d %d %d %d $%f %s | %s", ...)
PaymentNewData(x7877, x195, x194, x192, x191, x198, x189, x7873) ==
  Take(FmtInt(x7877) \o <<32>> \o FmtInt(x195) \o <<32>> \o FmtInt(x194) \o <<32>>
         \o FmtInt(x192) \o <<32>> \o FmtInt(x191) \o <<32, 36>> \o FmtDouble(x198)
         \o <<32>> \o IntToStrdate(x189) \o <<32, 124, 32>> \o x7873,
       500)

\* snprintf(h_data, 25, "%.10s    %.10s", w_name, d_name)
PaymentHData(x7884, x7885) ==
  Take(Take(x7884, 10) \o <<32, 32, 32, 32>> \o Take(x7885, 10), 24)

\* a payment that takes the amount off the customer's balance
PaymentCustomerDebits(x7872, x195, x194, x192, x191, x198, x189) ==
  IF Contains(x7872.c_credit, s_BC)
    THEN [x7872 EXCEPT !.c_balance = @ - x198,
                       !.c_data = PaymentNewData(x7872.c_id, x195, x194, x192, x191,
                                                 x198, x189, x7872.c_data)]
    ELSE [x7872 EXCEPT !.c_balance = @ - x198]

\* a payment that is also counted in c_ytd_payment and c_payment_cnt
PaymentCustomerCounts(x7872, x195, x194, x192, x191, x198, x189) ==
  [x7872 EXCEPT !.c_balance = @ + x198, !.c_ytd_payment = @ + x198,
                !.c_payment_cnt = @ + 1,
                !.c_data = IF Contains(x7872.c_credit, s_BC)
                             THEN PaymentNewData(x7872.c_id, x195, x194, x192, x191,
                                                 x198, x189, x7872.c_data)
                             ELSE @]

\* lines 1760-1772: balance and, for a "BC" customer, c_data
PaymentCustomer(x7872, x195, x194, x192, x191, x198, x189) ==
  IF Contains(x7872.c_credit, s_BC)
    THEN [x7872 EXCEPT !.c_balance = @ + x198,
                       !.c_data = PaymentNewData(x7872.c_id, x195, x194, x192, x191,
                                                 x198, x189, x7872.c_data)]
    ELSE [x7872 EXCEPT !.c_balance = @ + x198]

\* x10956->_9 += x198
PaymentWarehouse(w, x198) == [w EXCEPT !.w_ytd = @ + x198]

\* faulty variant: the district's d_ytd is left alone
PaymentDistrictKeepYtd(d, x198) == d

\* x10962->_10 += x198
PaymentDistrict(d, x198) == [d EXCEPT !.d_ytd = @ + x198]

\* the history row of line 1781
PaymentHistoryRow(x7888, x195, x194, x192, x191, x189, x198, h_data) ==
  HistoryRow(x7888, x195, x194, x192, x191, x189, x198, h_data)

\* a Payment that writes its history row over a stored one
PaymentHistoryAddOverwrites(st, row) ==
  RowSet(st, CHOOSE h \in Handles(st) : TRUE, row)

\* x3964.add(x16829) of line 1782
PaymentHistoryAdd(st, row) == StoreAdd(st, historyTblStoreType, row)

\* lines 1715-1723 and 1759-1782 with the rows looked up: warehouse x10956,
\* district x10962, customer ite15946
PaymentWrites(db, x189, x191, x192, x194, x195, x198, x10956, x10962, ite15946) ==
  [db EXCEPT
     !.warehouseTbl = StoreUpdate(RowSet(@, x10956, PaymentWarehouse(@.rows[x10956], x198)),
                                  warehouseTblStoreType, x10956),
     !.districtTbl = StoreUpdate(RowSet(@, x10962, PaymentDistrict(@.rows[x10962], x198)),
                                 districtTblStoreType, x10962),
     !.customerTbl = StoreUpdate(RowSet(@, ite15946,
                                        PaymentCustomer(@.rows[ite15946], x195, x194, x192,
                                                        x191, x198, x189)),
                                 customerTblStoreType, ite15946),
     !.historyTbl = PaymentHistoryAdd(@,
                             PaymentHistoryRow(db.customerTbl.rows[ite15946].c_id, x195,
                                               x194, x192, x191, x189, x198,
                                               PaymentHData(db.warehouseTbl.rows[x10956].w_name,
                                                            db.districtTbl.rows[x10962].d_name)))]

\* lines 1724-1758: the customer by name (x193 > 0) or by id
PaymentSelect(db, x193, x194, x195, x196, x15947) ==
  IF x193 > 0
    THEN MedianCustomer(x15947)
    ELSE StoreGet(db.customerTbl, customerTblStoreType, 0,
                  [c_id |-> x196, c_d_id |-> x195, c_w_id |-> x194])

\* the stores after the procedure, with the customer it selected
PaymentResult(db, ite15946) == [db |-> db, ite15946 |-> ite15946]

PaymentWith(db, x189, x191, x192, x194, x195, x198, ite15946) ==
  PaymentResult(
    PaymentWrites(db, x189, x191, x192, x194, x195, x198,
                  StoreGet(db.warehouseTbl, warehouseTblStoreType, 0, [w_id |-> x191]),
                  StoreGet(db.districtTbl, districtTblStoreType, 0,
                           [d_id |-> x192, d_w_id |-> x191]),
                  ite15946),
    ite15946)

PaymentTx(db, x189, x191, x192, x193, x194, x195, x196, x197, x198, x15947) ==
  PaymentWith(db, x189, x191, x192, x194, x195, x198,
              PaymentSelect(db, x193, x194, x195, x196, x15947))

(* ------------------------------- the driver ----------------------------- *)

VARIABLES warehouseTbl, districtTbl, customerTbl, itemTbl, stockTbl, orderTbl,
          newOrderTbl, orderLineTbl, historyTbl,
          i,        \* the loop index of main()
          prg,      \* tpcc.programs[i - 1], with the results the procedure left in it
          fault,    \* a procedure went through a NULL lookup result
          wPaid,    \* per warehouse, the h_amount of the Payments run with that w_id
          cPaid     \* per customer key, the h_amount of the Payments that selected it

tables == <<warehouseTbl, districtTbl, customerTbl, itemTbl, stockTbl, orderTbl,
            newOrderTbl, orderLineTbl, historyTbl>>

vars == <<warehouseTbl, districtTbl, customerTbl, itemTbl, stockTbl, orderTbl,
          newOrderTbl, orderLineTbl, historyTbl, i, prg, fault, wPaid, cPaid>>

Db == [warehouseTbl |-> warehouseTbl, districtTbl |-> districtTbl,
       customerTbl |-> customerTbl, itemTbl |-> itemTbl, stockTbl |-> stockTbl,
       orderTbl |-> orderTbl, newOrderTbl |-> newOrderTbl,
       orderLineTbl |-> orderLineTbl, historyTbl |-> historyTbl]

SetDb(d) ==
  /\ warehouseTbl' = d.warehouseTbl
  /\ districtTbl' = d.districtTbl
  /\ customerTbl' = d.customerTbl
  /\ itemTbl' = d.itemTbl
  /\ stockTbl' = d.stockTbl
  /\ orderTbl' = d.orderTbl
  /\ newOrderTbl' = d.newOrderTbl
  /\ orderLineTbl' = d.orderLineTbl
  /\ historyTbl' = d.historyTbl

CustomerKeys == {<<c, d, w>> : c \in CustomerIds, d \in CustomerDistricts,
                               w \in LoadedWarehouses}

\* the state the loaders leave
LoadedDb ==
  [warehouseTbl |-> Load(warehouseTblStoreType, {WarehouseRow(w) : w \in LoadedWarehouses}),
   districtTbl |-> Load(districtTblStoreType,
                        {DistrictRow(d, w, LoadedNextOrderId(d))
                           : d \in LoadedDistricts, w \in LoadedWarehouses}),
   customerTbl |-> Load(customerTblStoreType,
                        {CustomerRow(k[1], k[2], k[3]) : k \in CustomerKeys}),
   itemTbl |-> Load(itemTblStoreType, {ItemRow(it) : it \in LoadedItems}),
   stockTbl |-> Load(stockTblStoreType,
                     {StockRow(it, w) : it \in LoadedItems, w \in LoadedWarehouses}),
   orderTbl |-> Load(orderTblStoreType, LoadedOrders),
   newOrderTbl |-> Load(newOrderTblStoreType, LoadedNewOrders),
   orderLineTbl |-> Load(orderLineTblStoreType, LoadedOrderLines),
   historyTbl |-> Load(historyTblStoreType, LoadedHistory)]

Init ==
  /\ warehouseTbl = LoadedDb.warehouseTbl
  /\ districtTbl = LoadedDb.districtTbl
  /\ customerTbl = LoadedDb.customerTbl
  /\ itemTbl = LoadedDb.itemTbl
  /\ stockTbl = LoadedDb.stockTbl
  /\ orderTbl = LoadedDb.orderTbl
  /\ newOrderTbl = LoadedDb.newOrderTbl
  /\ orderLineTbl = LoadedDb.orderLineTbl
  /\ historyTbl = LoadedDb.historyTbl
  /\ i = 0
  /\ prg = [id |-> "NONE"]
  /\ fault = FALSE
  /\ wPaid = [w \in LoadedWarehouses |-> 0]
  /\ cPaid = [k \in CustomerKeys |-> 0]

(* The inputs of the generated programs. *)
WareInputs == LoadedWarehouses
DistInputs == CustomerDistricts
CustInputs == CustomerIds
\* customers of NewOrder: one without and one with a discount
NewOrderCustInputs == {1, 2}
DateInputs == {7}
\* item ids of NewOrder lines: the loaded items and one id no item row has
ItemInputs == LoadedItems \cup {3}
LineCounts == {1, 2}
\* the all-local flag of a NewOrder record of o_ol_cnt lines: both values on
\* one-line orders
AllLocalInputs(o_ol_cnt) == IF o_ol_cnt = 1 THEN {0, 1} ELSE {1}
QuantityInputs == {5}
AmountInputs == {250000}
CarrierInputs == {7}
ThresholdInputs == {10, 20}
LastNameInputs == {s_BAR, s_OUGHT}

\* the c_last of a program that selects its customer by id: the empty string
NoName == <<>>

\* a loop that steps over every other program of the list
NextProgramSkips(n) == n + 2

\* ++i of the for loop over the program list
NextProgram(n) == n + 1

\* i < numPrograms, within the part of the list the model follows
Running == i < numPrograms /\ i < MaxPrograms /\ ~fault

NEWORDER ==
  /\ Running
  /\ \E w_id \in WareInputs, d_id \in DistInputs, c_id \in NewOrderCustInputs,
        datetime \in DateInputs, o_ol_cnt \in LineCounts :
       \E o_all_local \in AllLocalInputs(o_ol_cnt),
          itemid \in [1..o_ol_cnt -> ItemInputs],
          quantity \in [1..o_ol_cnt -> QuantityInputs] :
         \E r \in {NewOrderTx(Db, datetime, w_id, d_id, c_id, o_ol_cnt, o_all_local, itemid,
                              [k \in 1..o_ol_cnt |-> w_id], quantity)} :
            /\ SetDb(r.db)
            /\ prg' = [id |-> "NEWORDER", datetime |-> datetime, w_id |-> w_id,
                       d_id |-> d_id, c_id |-> c_id, o_ol_cnt |-> o_ol_cnt,
                       o_all_local |-> o_all_local, itemid |-> itemid,
                       supware |-> [k \in 1..o_ol_cnt |-> w_id], quantity |-> quantity,
                       price |-> r.x283, iname |-> r.x284, stock |-> r.x285,
                       bg |-> r.x286, amt |-> r.x287]
            /\ fault' = r.fault
  /\ i' = NextProgram(i)
  /\ UNCHANGED <<wPaid, cPaid>>

Payment(id, by_name) ==
  /\ Running
  /\ \E w_id \in WareInputs, d_id \in DistInputs, c_w_id \in WareInputs,
        c_d_id \in DistInputs, datetime \in DateInputs, h_amount \in AmountInputs :
       \E c_id \in IF by_name = 0 THEN CustInputs ELSE {-1},
          c_last \in IF by_name = 0 THEN {NoName} ELSE LastNameInputs :
         \E x15947 \in IF by_name = 0 THEN {<<>>}
                       ELSE SortOutcomes(customerTbl,
                                         CustomersByName(Db, c_w_id, c_d_id, c_last)) :
           \* a by-name program names a customer that exists
           /\ by_name > 0 => x15947 # <<>>
           /\ \E r \in {PaymentTx(Db, datetime, w_id, d_id, by_name, c_w_id, c_d_id,
                                    c_id, c_last, h_amount, x15947)} :
              LET c == customerTbl.rows[r.ite15946]
              IN /\ SetDb(r.db)
                 /\ prg' = [id |-> id, datetime |-> datetime, w_id |-> w_id,
                            d_id |-> d_id, c_w_id |-> c_w_id, c_d_id |-> c_d_id,
                            c_id |-> c_id, c_last_input |-> c_last,
                            h_amount |-> h_amount, ite15946 |-> r.ite15946,
                            x15947 |-> x15947]
                 /\ wPaid' = [wPaid EXCEPT ![w_id] = @ + h_amount]
                 /\ cPaid' = [cPaid EXCEPT ![<<c.c_id, c.c_d_id, c.c_w_id>>] = @ + h_amount]
  /\ i' = NextProgram(i)
  /\ UNCHANGED fault

PAYMENTBYID == Payment("PAYMENTBYID", 0)

\* a case PAYMENTBYNAME that passes the by-name flag 0
PAYMENTBYNAMEById == Payment("PAYMENTBYNAME", 0)

PAYMENTBYNAME == Payment("PAYMENTBYNAME", 1)

OrderStatus(id, by_name) ==
  /\ Running
  /\ \E w_id \in WareInputs, d_id \in DistInputs :
       \E c_id \in IF by_name = 0 THEN CustInputs ELSE {-1},
          c_last \in IF by_name = 0 THEN {NoName} ELSE LastNameInputs :
         \E x15846 \in IF by_name = 0 THEN {<<>>}
                       ELSE SortOutcomes(customerTbl,
                                         CustomersByName(Db, w_id, d_id, c_last)) :
           /\ by_name > 0 => x15846 # <<>>
           /\ \E r \in {OrderStatusTx(Db, w_id, d_id, by_name, c_id, c_last, x15846)} :
                 /\ SetDb(r.db)
                 /\ prg' = [id |-> id, w_id |-> w_id, d_id |-> d_id, c_id |-> c_id,
                            c_last |-> c_last, ite15845 |-> r.ite15845,
                            x15846 |-> x15846, x184 |-> r.x184]
                 /\ fault' = (r.x10901 = NULL)
  /\ i' = NextProgram(i)
  /\ UNCHANGED <<wPaid, cPaid>>

ORDERSTATUSBYID == OrderStatus("ORDERSTATUSBYID", 0)

ORDERSTATUSBYNAME == OrderStatus("ORDERSTATUSBYNAME", 1)

DELIVERY ==
  /\ Running
  /\ \E w_id \in WareInputs, datetime \in DateInputs, o_carrier_id \in CarrierInputs :
       \E r \in {DeliveryTx(Db, datetime, w_id, o_carrier_id)} :
          /\ SetDb(r.db)
          /\ prg' = [id |-> "DELIVERY", datetime |-> datetime, w_id |-> w_id,
                     o_carrier_id |-> o_carrier_id, orderIDs |-> r.orderIDs]
          /\ fault' = r.fault
  /\ i' = NextProgram(i)
  /\ UNCHANGED <<wPaid, cPaid>>

STOCKLEVEL ==
  /\ Running
  /\ \E w_id \in WareInputs, d_id \in DistInputs, threshold \in ThresholdInputs :
       \E r \in {StockLevelTx(Db, w_id, d_id, threshold)} :
          /\ SetDb(r.db)
          /\ prg' = [id |-> "STOCKLEVEL", w_id |-> w_id, d_id |-> d_id,
                     threshold |-> threshold, probed |-> r.probed,
                     unique_ol_i_id |-> r.unique_ol_i_id]
  /\ i' = NextProgram(i)
  /\ UNCHANGED <<fault, wPaid, cPaid>>

\* default: cerr << "UNKNOWN PROGRAM TYPE"
UnknownProgram ==
  /\ Running
  /\ prg' = [id |-> "UNKNOWN"]
  /\ i' = NextProgram(i)
  /\ UNCHANGED <<tables, fault, wPaid, cPaid>>

\* an end of main that reports a failure
ExitMainFails ==
  /\ ~(i < numPrograms /\ i < MaxPrograms)
  /\ ~fault
  /\ prg.id # "EXIT"
  /\ prg' = [id |-> "EXIT", status |-> 1]
  /\ UNCHANGED <<tables, i, fault, wPaid, cPaid>>

\* the end of main after the loop: no return statement, the process ends
\* with status 0
ExitMain ==
  /\ ~(i < numPrograms /\ i < MaxPrograms)
  /\ ~fault
  /\ prg.id # "EXIT"
  /\ prg' = [id |-> "EXIT", status |-> 0]
  /\ UNCHANGED <<tables, i, fault, wPaid, cPaid>>

Next ==
  \/ NEWORDER
  \/ PAYMENTBYID
  \/ PAYMENTBYNAME
  \/ ORDERSTATUSBYID
  \/ ORDERSTATUSBYNAME
  \/ DELIVERY
  \/ STOCKLEVEL
  \/ UnknownProgram
  \/ ExitMain

Spec == Init /\ [][Next]_vars

(* ------------------------------ the loaders ----------------------------- *)
(* The loaders fill the direct-array stores with one row per primary key:  *)
(* warehouses 1..numWare, ten districts per warehouse, customers per       *)
(* district, items, and one stock row per item and warehouse.  They are    *)
(* followed for MaxLoadRows rows, with the ends of the customer and item   *)
(* ranges; prg records the slot and the capacity of the last row.          *)

\* table sizes with 30000 customers for each district slot
TblSizesTenfold(W, P) ==
  LET districtTblSize == 8 * ((W * 10) \div 8 + 1)
      orderTblSize == (districtTblSize * 30000 * 3) \div 2 + P \div 2
  IN [warehouse |-> 8 * (W \div 8 + 1), item |-> 100000, district |-> districtTblSize,
      customer |-> districtTblSize * 30000, order |-> orderTblSize,
      orderLine |-> orderTblSize * 12, stock |-> W * 100000, history |-> orderTblSize]

\* lines 26-34 for a build with NUMWARE = W and NUMPROG = P; orderTblSize is
\* customerTblSize * 1.5 + 0.5 * numPrograms cut to a size_t
TblSizes(W, P) ==
  LET warehouseTblSize == 8 * (W \div 8 + 1)
      itemTblSize == 100000
      districtTblSize == 8 * ((W * 10) \div 8 + 1)
      customerTblSize == districtTblSize * 3000
      orderTblSize == (customerTblSize * 3) \div 2 + P \div 2
      orderLineTblSize == orderTblSize * 12
      stockTblSize == W * itemTblSize
      historyTblSize == orderTblSize
  IN [warehouse |-> warehouseTblSize, item |-> itemTblSize, district |-> districtTblSize,
      customer |-> customerTblSize, order |-> orderTblSize,
      orderLine |-> orderLineTblSize, stock |-> stockTblSize, history |-> historyTblSize]

\* the stores are constructed with the sizes of the build, before any load
tableSizes ==
  /\ prg.id = "NONE"
  /\ \E W \in 1..MaxWare, P \in 0..MaxProg :
       prg' = [id |-> "SIZES", W |-> W, P |-> P, size |-> TblSizes(W, P)]
  /\ UNCHANGED <<tables, i, fault, wPaid, cPaid>>

LoadWareIds == 1..numWare
LoadDistIds == 1..NumDistricts
LoadCustIds == {1, 3000}
LoadItemIds == {1, 100000}

\* the stores before the loaders run
LoadInit ==
  /\ warehouseTbl = EmptyStore(warehouseTblStoreType)
  /\ districtTbl = EmptyStore(districtTblStoreType)
  /\ customerTbl = EmptyStore(customerTblStoreType)
  /\ itemTbl = EmptyStore(itemTblStoreType)
  /\ stockTbl = EmptyStore(stockTblStoreType)
  /\ orderTbl = EmptyStore(orderTblStoreType)
  /\ newOrderTbl = EmptyStore(newOrderTblStoreType)
  /\ orderLineTbl = EmptyStore(orderLineTblStoreType)
  /\ historyTbl = EmptyStore(historyTblStoreType)
  /\ i = 0
  /\ prg = [id |-> "NONE"]
  /\ fault = FALSE
  /\ wPaid = [w \in LoadedWarehouses |-> 0]
  /\ cPaid = [k \in CustomerKeys |-> 0]

RowsLoaded ==
  Cardinality(Handles(warehouseTbl)) + Cardinality(Handles(districtTbl))
    + Cardinality(Handles(customerTbl)) + Cardinality(Handles(itemTbl))
    + Cardinality(Handles(stockTbl))

\* the row is not in the store yet: a loader inserts each key once
NotLoaded(st, row) == \A h \in Handles(st) : st.rows[h] # row

\* the slot hash() of the primary index computes for the row
ArraySlot(T, row) == IdxKey(T[1].fn, row)

\* one insert of a loader into a direct-array store of type T
LoadsRow(name, st, T, row) ==
  /\ RowsLoaded < MaxLoadRows
  /\ NotLoaded(st, row)
  /\ prg' = [id |-> "LOAD", tbl |-> name, slot |-> ArraySlot(T, row),
             capacity |-> T[1].arg]
  /\ UNCHANGED <<orderTbl, newOrderTbl, orderLineTbl, historyTbl, i, fault, wPaid, cPaid>>

loadWare ==
  \E w \in LoadWareIds :
    /\ LoadsRow("warehouse", warehouseTbl, warehouseTblStoreType, WarehouseRow(w))
    /\ warehouseTbl' = StoreAdd(warehouseTbl, warehouseTblStoreType, WarehouseRow(w))
    /\ UNCHANGED <<districtTbl, customerTbl, itemTbl, stockTbl>>

loadDist ==
  \E w \in LoadWareIds, d \in LoadDistIds :
    /\ LoadsRow("district", districtTbl, districtTblStoreType, DistrictRow(d, w, 1))
    /\ districtTbl' = StoreAdd(districtTbl, districtTblStoreType, DistrictRow(d, w, 1))
    /\ UNCHANGED <<warehouseTbl, customerTbl, itemTbl, stockTbl>>

loadCust ==
  \E w \in LoadWareIds, d \in LoadDistIds, c \in LoadCustIds :
    /\ LoadsRow("customer", customerTbl, customerTblStoreType, CustomerRow(c, d, w))
    /\ customerTbl' = StoreAdd(customerTbl, customerTblStoreType, CustomerRow(c, d, w))
    /\ UNCHANGED <<warehouseTbl, districtTbl, itemTbl, stockTbl>>

loadItem ==
  \E it \in LoadItemIds :
    /\ LoadsRow("item", itemTbl, itemTblStoreType, ItemRow(it))
    /\ itemTbl' = StoreAdd(itemTbl, itemTblStoreType, ItemRow(it))
    /\ UNCHANGED <<warehouseTbl, districtTbl, customerTbl, stockTbl>>

loadStocks ==
  \E w \in LoadWareIds, it \in LoadItemIds :
    /\ LoadsRow("stock", stockTbl, stockTblStoreType, StockRow(it, w))
    /\ stockTbl' = StoreAdd(stockTbl, stockTblStoreType, StockRow(it, w))
    /\ UNCHANGED <<warehouseTbl, districtTbl, customerTbl, itemTbl>>

LoadNext == tableSizes \/ loadWare \/ loadDist \/ loadCust \/ loadItem \/ loadStocks

LoadSpec == LoadInit /\ [][LoadNext]_vars

\* an iteration of the dispatch loop
Iterate == Running /\ i' = i + 1

\* main is one thread that nothing suspends: while the loop condition holds
\* the next iteration is taken, and after the loop main ends
FairSpec == Spec /\ WF_i(Iterate) /\ WF_<<prg.id>>(ExitMain)


(* ------------------------------ properties ------------------------------ *)
(* The rows of a table are the rows its primary index holds, counted by    *)
(* handle: two stored rows with equal fields are two rows.                  *)

Stored(st) == {e[2] : e \in st.idx[1]}

\* the item ids that have an item row
ItemIds == {itemTbl.rows[h].i_id : h \in Stored(itemTbl)}

\* the program's item list names an id that has no item row
HasBadItem(p) == \E k \in 1..p.o_ol_cnt : p.itemid[k] \notin ItemIds

\* the step runs a NewOrder program
NewOrderStep == prg'.id = "NEWORDER" /\ i' = i + 1

DistrictOf(st, w, d) ==
  CHOOSE h \in Stored(st) : st.rows[h].d_id = d /\ st.rows[h].d_w_id = w

OrdersOf(st, w, d) ==
  {h \in Stored(st) : st.rows[h].o_w_id = w /\ st.rows[h].o_d_id = d}

NewOrdersOf(st, w, d) ==
  {h \in Stored(st) : st.rows[h].no_w_id = w /\ st.rows[h].no_d_id = d}

LinesOf(st, w, d, o) ==
  {h \in Stored(st) : /\ st.rows[h].ol_w_id = w
                       /\ st.rows[h].ol_d_id = d
                       /\ st.rows[h].ol_o_id = o}

\* the rows a step inserted into, and deleted from, a store
Inserted(st, st1) == Stored(st1) \ Stored(st)
Deleted(st, st1) == Stored(st) \ Stored(st1)

\* C1: a NewOrder whose item list has an i_id with no item row leaves all
\* nine tables exactly as they were: no next_o_id increment, no order,
\* new_order or order_line insert, no stock change.
C1_BadItemLeavesTables ==
  [][(NewOrderStep /\ HasBadItem(prg')) => tables' = tables]_vars

\* C1 case: a NewOrder ran whose second item id has no item row, after its
\* first item was found
C1_Witness ==
  /\ prg.id = "NEWORDER"
  /\ prg.o_ol_cnt = 2
  /\ prg.itemid[1] \in ItemIds
  /\ prg.itemid[2] \notin ItemIds

\* C2: a NewOrder(W, D, C, N lines) whose item lookups all succeed raises
\* next_o_id of district (W, D) by exactly 1, inserts exactly one order row,
\* one new_order row and N order_line rows, all of that order, and inserts
\* or deletes no other row of any table.
C2_CommitInsertsOneOrder ==
  [][(NewOrderStep /\ ~HasBadItem(prg')) =>
       LET W == prg'.w_id
           D == prg'.d_id
           o == districtTbl.rows[DistrictOf(districtTbl, W, D)].d_next_o_id
       IN /\ districtTbl'.rows[DistrictOf(districtTbl', W, D)].d_next_o_id = o + 1
          /\ \A h \in Stored(districtTbl) :
               districtTbl.rows[h].d_id # D =>
                 districtTbl'.rows[h].d_next_o_id = districtTbl.rows[h].d_next_o_id
          /\ Cardinality(Inserted(orderTbl, orderTbl')) = 1
          /\ Inserted(orderTbl, orderTbl') \subseteq OrdersOf(orderTbl', W, D)
          /\ Cardinality(Inserted(newOrderTbl, newOrderTbl')) = 1
          /\ Inserted(newOrderTbl, newOrderTbl') \subseteq NewOrdersOf(newOrderTbl', W, D)
          /\ Cardinality(Inserted(orderLineTbl, orderLineTbl')) = prg'.o_ol_cnt
          /\ Inserted(orderLineTbl, orderLineTbl') \subseteq LinesOf(orderLineTbl', W, D, o)
          /\ Deleted(orderTbl, orderTbl') = {}
          /\ Deleted(newOrderTbl, newOrderTbl') = {}
          /\ Deleted(orderLineTbl, orderLineTbl') = {}
          /\ Stored(warehouseTbl') = Stored(warehouseTbl)
          /\ Stored(districtTbl') = Stored(districtTbl)
          /\ Stored(customerTbl') = Stored(customerTbl)
          /\ Stored(itemTbl') = Stored(itemTbl)
          /\ Stored(stockTbl') = Stored(stockTbl)
          /\ Stored(historyTbl') = Stored(historyTbl)]_vars

\* C2 case: a NewOrder of two lines committed
C2_Witness ==
  /\ prg.id = "NEWORDER"
  /\ prg.o_ol_cnt = 2
  /\ ~HasBadItem(prg)
  /\ ~fault
  /\ Cardinality(Stored(orderTbl)) > Cardinality(LoadedOrders)

\* C3: every district (w, d) has next_o_id = 1 + the number of order rows
\* with o_w_id = w and o_d_id = d, after any prefix of the program list.
C3_NextOrderIdCountsOrders ==
  \A h \in Stored(districtTbl) :
    LET d == districtTbl.rows[h]
    IN d.d_next_o_id = 1 + Cardinality(OrdersOf(orderTbl, d.d_w_id, d.d_id))

\* C3 case: a district took an order id since load and another program ran
\* after that
C3_Witness ==
  /\ i = 2
  /\ prg.id # "NEWORDER"
  /\ \E h \in Stored(districtTbl) :
       districtTbl.rows[h].d_next_o_id > LoadedNextOrderId(districtTbl.rows[h].d_id)

\* C4: for every order row (o_id, d, w) with o_ol_cnt = n there is exactly
\* one order_line row with key (o_id, d, w, k) for every k in 1..n, and no
\* order_line row of that order has an ol_number outside 1..n.
C4_OneLinePerNumber ==
  \A h \in Stored(orderTbl) :
    LET o == orderTbl.rows[h]
        L == LinesOf(orderLineTbl, o.o_w_id, o.o_d_id, o.o_id)
    IN /\ \A k \in 1..o.o_ol_cnt :
            Cardinality({g \in L : orderLineTbl.rows[g].ol_number = k}) = 1
       /\ \A g \in L : orderLineTbl.rows[g].ol_number \in 1..o.o_ol_cnt

\* C4 case: an order of two lines was entered after load
C4_Witness ==
  \E h \in Stored(orderTbl) :
    /\ orderTbl.rows[h].o_id >= LoadedNextOrderId(orderTbl.rows[h].o_d_id)
    /\ orderTbl.rows[h].o_ol_cnt = 2

\* C5: every new_order row (o_id, d, w) has an order row with the same
\* (o_id, d, w) whose o_carrier_id is -1; Delivery leaves no new_order row
\* whose order carries a carrier id.
C5_NewOrderHasUndeliveredOrder ==
  \A h \in Stored(newOrderTbl) :
    LET n == newOrderTbl.rows[h]
    IN \E g \in Stored(orderTbl) :
         /\ orderTbl.rows[g].o_id = n.no_o_id
         /\ orderTbl.rows[g].o_d_id = n.no_d_id
         /\ orderTbl.rows[g].o_w_id = n.no_w_id
         /\ orderTbl.rows[g].o_carrier_id = NoCarrier

\* C5 case: a Delivery ran on a district that had an order entered since
\* load, and new_order rows remain
C5_Witness ==
  /\ prg.id = "DELIVERY"
  /\ Stored(newOrderTbl) # {}
  /\ \E g \in Stored(orderTbl) :
       /\ orderTbl.rows[g].o_id >= LoadedNextOrderId(orderTbl.rows[g].o_d_id)
       /\ orderTbl.rows[g].o_carrier_id # NoCarrier

RECURSIVE SumDistrictYtd(_, _)
SumDistrictYtd(st, H) ==
  IF H = {} THEN 0
  ELSE SumDistrictYtd(st, H \ {CHOOSE h \in H : TRUE}) + st.rows[CHOOSE h \in H : TRUE].d_ytd

RECURSIVE SumHistoryAmount(_, _)
SumHistoryAmount(st, H) ==
  IF H = {} THEN 0
  ELSE SumHistoryAmount(st, H \ {CHOOSE h \in H : TRUE})
         + st.rows[CHOOSE h \in H : TRUE].h_amount

RECURSIVE SumLineAmount(_, _)
SumLineAmount(st, H) ==
  IF H = {} THEN 0
  ELSE SumLineAmount(st, H \ {CHOOSE h \in H : TRUE})
         + st.rows[CHOOSE h \in H : TRUE].ol_amount

\* the step runs a Payment program
PaymentStep == prg'.id \in {"PAYMENTBYID", "PAYMENTBYNAME"} /\ i' = i + 1

\* C6: for every warehouse w, w_ytd is the sum of d_ytd over the districts of
\* w, and w_ytd has grown since load by the sum of the h_amount of the
\* Payment programs run with w_id = w.
C6_WarehouseYtdIsDistrictSum ==
  \A h \in Stored(warehouseTbl) :
    LET w == warehouseTbl.rows[h]
    IN /\ w.w_ytd = SumDistrictYtd(districtTbl,
                      {g \in Stored(districtTbl) : districtTbl.rows[g].d_w_id = w.w_id})
       /\ w.w_ytd - WarehouseRow(w.w_id).w_ytd = wPaid[w.w_id]

\* C6 case: two Payments were run, on two districts of a warehouse
C6_Witness ==
  /\ i = 2
  /\ wPaid[1] = 2 * 250000
  /\ Cardinality({g \in Stored(districtTbl) :
                    districtTbl.rows[g].d_ytd > DistrictRow(1, 1, 1).d_ytd}) = 2

\* the history rows added since load for customer key k = <<c_id, c_d_id, c_w_id>>
HistoryAddedFor(k) ==
  {h \in Stored(historyTbl) \ Stored(Load(historyTblStoreType, LoadedHistory)) :
     /\ historyTbl.rows[h].h_c_id = k[1]
     /\ historyTbl.rows[h].h_c_d_id = k[2]
     /\ historyTbl.rows[h].h_c_w_id = k[3]}

\* C7: for every customer, the h_amount of the history rows added for it
\* since load sum up to the h_amount of the Payment programs that selected
\* it; and every Payment adds exactly one history row and removes none, also
\* when a row with the same fields is already stored.
C7_HistoryRecordsEveryPayment ==
  /\ [](\A k \in CustomerKeys : SumHistoryAmount(historyTbl, HistoryAddedFor(k)) = cPaid[k])
  /\ [][PaymentStep =>
          /\ Stored(historyTbl) \subseteq Stored(historyTbl')
          /\ Cardinality(Stored(historyTbl') \ Stored(historyTbl)) = 1]_vars

\* C7 case: a Payment added a history row equal in every field to a row
\* another Payment had added
C7_Witness ==
  /\ prg.id \in {"PAYMENTBYID", "PAYMENTBYNAME"}
  /\ \E h, g \in Stored(historyTbl) \ Stored(LoadedDb.historyTbl) :
       h # g /\ historyTbl.rows[h] = historyTbl.rows[g]

\* the secondary index (index 1) of a store serves, for the key fields of
\* every stored row, the stored rows with these key fields, and holds no
\* other row
SecondaryInStep(st, T) ==
  /\ {e[2] : e \in st.idx[2]} = Stored(st)
  /\ \A h \in Stored(st) :
       StoreSlice(st, T, 1, st.rows[h])
         = {g \in Stored(st) : IdxKey(T[2].fn, st.rows[g]) = IdxKey(T[2].fn, st.rows[h])}

\* C8: the secondary indices of customer (c_d_id, c_w_id, c_last), order
\* (o_d_id, o_w_id, o_c_id), new_order (no_d_id, no_w_id) and order_line
\* (ol_o_id, ol_d_id, ol_w_id) hold exactly the rows of the primary index: a
\* slice through one returns the primary's rows with the probe's key fields.
C8_SecondaryIndexesInStep ==
  /\ SecondaryInStep(customerTbl, customerTblStoreType)
  /\ SecondaryInStep(orderTbl, orderTblStoreType)
  /\ SecondaryInStep(newOrderTbl, newOrderTblStoreType)
  /\ SecondaryInStep(orderLineTbl, orderLineTblStoreType)

\* C8 case: a Delivery (del and update) ran after a NewOrder of two lines
\* (add) had committed
C8_Witness ==
  /\ i = 2
  /\ prg.id = "DELIVERY"
  /\ Cardinality(Stored(orderLineTbl)) = Cardinality(LoadedOrderLines) + 2
  /\ Cardinality(Stored(newOrderTbl)) < Cardinality(LoadedNewOrders)

\* a string with its upper-case letters folded to lower case
Lower(str) == [k \in DOMAIN str |-> IF str[k] \in 65..90 THEN str[k] + 32 ELSE str[k]]

\* lexicographic order of two strings
LexLess(a, b) ==
  \E k \in 1..Len(b) :
     /\ k <= Len(a) + 1
     /\ \A j \in 1..(k - 1) : a[j] = b[j]
     /\ (k = Len(a) + 1 \/ a[k] < b[k])

\* customer m comes before customer c by c_first, case-insensitively
FirstBefore(m, c) ==
  LexLess(Lower(customerTbl.rows[m].c_first), Lower(customerTbl.rows[c].c_first))

\* the stored customers with the given warehouse, district and last name
Matches(w, d, last) ==
  {h \in Stored(customerTbl) : /\ customerTbl.rows[h].c_w_id = w
                               /\ customerTbl.rows[h].c_d_id = d
                               /\ customerTbl.rows[h].c_last = last}

\* position n/2 - 1 for an even n, n/2 for an odd n
MiddlePosition(n) == IF n % 2 = 0 THEN (n \div 2) - 1 ELSE n \div 2

\* customer c stands at 0-based position pos in an ascending order of M by
\* c_first, and the positions of 1, 2 and 3 matches are 0, 0 and 1
SelectedFrom(c, M) ==
  /\ M # {}
  /\ c \in M
  /\ Cardinality({m \in M : FirstBefore(m, c)}) <= MiddlePosition(Cardinality(M))
  /\ MiddlePosition(Cardinality(M)) < Cardinality({m \in M : ~FirstBefore(c, m)})
  /\ Cardinality(M) <= 3 => MiddlePosition(Cardinality(M)) = <<0, 0, 1>>[Cardinality(M)]

\* C9: Payment and OrderStatus by name select, of the n >= 1 customers that
\* match (c_w_id, c_d_id, c_last) sorted ascending by c_first without regard
\* to case, the one at position n/2 - 1 (n even) or n/2 (n odd): positions
\* 0, 0, 1 for n = 1, 2, 3.
C9_ByNameSelectsMiddle ==
  [][/\ (prg'.id = "PAYMENTBYNAME" /\ i' = i + 1) =>
          SelectedFrom(prg'.ite15946,
                       Matches(prg'.c_w_id, prg'.c_d_id, prg'.c_last_input))
     /\ (prg'.id = "ORDERSTATUSBYNAME" /\ i' = i + 1) =>
          SelectedFrom(prg'.ite15845, Matches(prg'.w_id, prg'.d_id, prg'.c_last))]_vars

\* C9 case: an OrderStatus by name chose between two matches, after a
\* Payment to a customer whose last name three customers of its district bear
C9_Witness ==
  /\ prg.id = "ORDERSTATUSBYNAME"
  /\ Cardinality(Matches(prg.w_id, prg.d_id, prg.c_last)) = 2
  /\ \E k \in CustomerKeys :
       /\ cPaid[k] > 0
       /\ Cardinality(Matches(k[3], k[2], CustLast(k[2], k[1]))) = 3

\* the least order id among the new_order rows H
LeastOrderId(st, H) ==
  CHOOSE o \in {st.rows[h].no_o_id : h \in H} :
    \A h \in H : o <= st.rows[h].no_o_id

\* what a Delivery step (unprimed to primed stores) did in district D of
\* warehouse W in which order o was the least pending one
DeliveredIn(W, D, o, carrier, timestamp) ==
  LET order == CHOOSE g \in OrdersOf(orderTbl, W, D) : orderTbl.rows[g].o_id = o
      L == LinesOf(orderLineTbl, W, D, o)
      cust == CHOOSE c \in Stored(customerTbl) :
                /\ customerTbl.rows[c].c_id = orderTbl.rows[order].o_c_id
                /\ customerTbl.rows[c].c_d_id = D
                /\ customerTbl.rows[c].c_w_id = W
  IN /\ NewOrdersOf(newOrderTbl', W, D)
          = {h \in NewOrdersOf(newOrderTbl, W, D) : newOrderTbl.rows[h].no_o_id # o}
     /\ Cardinality(NewOrdersOf(newOrderTbl', W, D))
          = Cardinality(NewOrdersOf(newOrderTbl, W, D)) - 1
     /\ \A h \in NewOrdersOf(newOrderTbl', W, D) :
          newOrderTbl'.rows[h] = newOrderTbl.rows[h]
     /\ orderTbl'.rows[order].o_carrier_id = carrier
     /\ L # {}
     /\ LinesOf(orderLineTbl', W, D, o) = L
     /\ \A h \in L : orderLineTbl'.rows[h].ol_delivery_d = timestamp
     /\ customerTbl'.rows[cust].c_balance
          = customerTbl.rows[cust].c_balance + SumLineAmount(orderLineTbl, L)

\* C10: Delivery(W, carrier, timestamp) does, in each district D of 1..10
\* with a new_order row of (D, W): remove the new_order row of the smallest
\* o_id and no other, set o_carrier_id of that order to carrier, set
\* ol_delivery_d of each of its order lines to timestamp, and add the sum of
\* their ol_amount to the balance of customer (o_c_id, D, W).
C10_DeliveryDeliversOldest ==
  [][(prg'.id = "DELIVERY" /\ i' = i + 1) =>
       \A D \in 1..NumDistricts :
         NewOrdersOf(newOrderTbl, prg'.w_id, D) # {} =>
           DeliveredIn(prg'.w_id, D,
                       LeastOrderId(newOrderTbl, NewOrdersOf(newOrderTbl, prg'.w_id, D)),
                       prg'.o_carrier_id, prg'.datetime)]_vars

\* C10 case: a Delivery took order 2 of district 2, where order 3 is still
\* pending, and an order of district 1 entered after load
C10_Witness ==
  /\ prg.id = "DELIVERY"
  /\ prg.orderIDs[2] = 2
  /\ prg.orderIDs[1] = LoadedNextOrderId(1)
  /\ \E h \in NewOrdersOf(newOrderTbl, 1, 2) : newOrderTbl.rows[h].no_o_id = 3

DeliveryStep == prg'.id = "DELIVERY" /\ i' = i + 1

CustomersOf(st, w, d) ==
  {h \in Stored(st) : st.rows[h].c_w_id = w /\ st.rows[h].c_d_id = d}

AllLinesOf(st, w, d) ==
  {h \in Stored(st) : st.rows[h].ol_w_id = w /\ st.rows[h].ol_d_id = d}

\* the rows H of store st are the rows H1 of store st1, field by field
SameRows(st, H, st1, H1) == H = H1 /\ \A h \in H : st.rows[h] = st1.rows[h]

\* the step left every row of district (W, D) alone
DistrictUntouched(W, D) ==
  /\ SameRows(newOrderTbl, NewOrdersOf(newOrderTbl, W, D),
              newOrderTbl', NewOrdersOf(newOrderTbl', W, D))
  /\ SameRows(orderTbl, OrdersOf(orderTbl, W, D), orderTbl', OrdersOf(orderTbl', W, D))
  /\ SameRows(orderLineTbl, AllLinesOf(orderLineTbl, W, D),
              orderLineTbl', AllLinesOf(orderLineTbl', W, D))
  /\ SameRows(customerTbl, CustomersOf(customerTbl, W, D),
              customerTbl', CustomersOf(customerTbl', W, D))

\* C11: in Delivery(W, ...), a district D of 1..10 without a new_order row
\* (no_d_id = D, no_w_id = W) gets result slot 0 and none of its new_order,
\* order, order_line or customer rows is inserted, changed or deleted; every
\* district that has a new_order row is still processed (a new_order row of
\* it is deleted and its slot holds an order id).
C11_EmptyDistrictSkipped ==
  [][DeliveryStep =>
       \A D \in 1..NumDistricts :
         IF NewOrdersOf(newOrderTbl, prg'.w_id, D) = {}
           THEN prg'.orderIDs[D] = 0 /\ DistrictUntouched(prg'.w_id, D)
           ELSE /\ prg'.orderIDs[D] # 0
                /\ NewOrdersOf(newOrderTbl', prg'.w_id, D)
                     # NewOrdersOf(newOrderTbl, prg'.w_id, D)]_vars

\* C11 case: a Delivery found district 1 without a pending order, left its
\* rows alone and went on to deliver order 2 of district 2
C11_Witness ==
  /\ prg.id = "DELIVERY"
  /\ i = 1
  /\ prg.orderIDs[1] = 0
  /\ prg.orderIDs[2] = 2
  /\ NewOrdersOf(newOrderTbl, 1, 1) = {}
  /\ \A h \in OrdersOf(orderTbl, 1, 1) : orderTbl.rows[h] \in LoadedOrders
  /\ \A h \in NewOrdersOf(newOrderTbl, 1, 2) : newOrderTbl.rows[h].no_o_id = 3

\* the customer row of the order a Delivery takes in district (W, D): the
\* customer (o_c_id, D, W) of the pending order with the least id
DeliveredCustomer(W, D) ==
  LET o == LeastOrderId(newOrderTbl, NewOrdersOf(newOrderTbl, W, D))
      order == CHOOSE g \in OrdersOf(orderTbl, W, D) : orderTbl.rows[g].o_id = o
  IN CHOOSE c \in CustomersOf(customerTbl, W, D) :
       customerTbl.rows[c].c_id = orderTbl.rows[order].o_c_id

\* C12 as stated: for each order that Delivery delivers, c_payment_cnt of
\* customer (order.o_c_id, D, W) is increased by exactly 1.
C12_PaymentCntIncreased ==
  [][DeliveryStep =>
       \A D \in 1..NumDistricts :
         NewOrdersOf(newOrderTbl, prg'.w_id, D) # {} =>
           LET c == DeliveredCustomer(prg'.w_id, D)
           IN customerTbl'.rows[c].c_payment_cnt
                = customerTbl.rows[c].c_payment_cnt + 1]_vars

\* C12: for each order that Delivery delivers, the delivery count
\* (c_delivery_cnt) of customer (order.o_c_id, D, W) is increased by exactly
\* 1 and the payment count (c_payment_cnt) of that customer is unchanged.
C12_DeliveryCntIncreased ==
  [][DeliveryStep =>
       \A D \in 1..NumDistricts :
         NewOrdersOf(newOrderTbl, prg'.w_id, D) # {} =>
           LET c == DeliveredCustomer(prg'.w_id, D)
           IN /\ customerTbl'.rows[c].c_delivery_cnt
                   = customerTbl.rows[c].c_delivery_cnt + 1
              /\ customerTbl'.rows[c].c_payment_cnt
                   = customerTbl.rows[c].c_payment_cnt]_vars

\* C12 case: after a Delivery, customer 2 of district 2 (order 2) has one
\* delivery counted and the loaded payment count
C12_Witness ==
  /\ prg.id = "DELIVERY"
  /\ prg.orderIDs[2] = 2
  /\ \E c \in CustomersOf(customerTbl, 1, 2) :
       /\ customerTbl.rows[c].c_id = 2
       /\ customerTbl.rows[c].c_delivery_cnt = 1
       /\ customerTbl.rows[c].c_payment_cnt = CustomerRow(2, 2, 1).c_payment_cnt

OrderStatusRan == prg.id \in {"ORDERSTATUSBYID", "ORDERSTATUSBYNAME"}

\* the greatest o_id among the order rows H of store st
GreatestOrderId(st, H) ==
  CHOOSE o \in {st.rows[h].o_id : h \in H} : \A h \in H : st.rows[h].o_id <= o

\* C13: OrderStatus(W, D, customer by id or by name) reads the order with the
\* highest o_id among the order rows with o_d_id = D, o_w_id = W and o_c_id
\* equal to the c_id of the selected customer.
C13_ReadsLastOrderOfCustomer ==
  OrderStatusRan =>
    LET c == customerTbl.rows[prg.ite15845]
        O == {h \in OrdersOf(orderTbl, prg.w_id, prg.d_id) :
                orderTbl.rows[h].o_c_id = c.c_id}
    IN O # {} /\ prg.x184 = GreatestOrderId(orderTbl, O)

ReadOnlyStep ==
  /\ prg'.id \in {"ORDERSTATUSBYID", "ORDERSTATUSBYNAME", "STOCKLEVEL"}
  /\ i' = i + 1

\* C14: OrderStatus and StockLevel are read-only: for every input and every
\* table state, all nine tables (row sets, every field of every row, every
\* index) are the same after the call as before it.
C14_ReadOnlyTransactions == [][ReadOnlyStep => tables' = tables]_vars

\* C14 case: a StockLevel that found a low-stock item ran on tables a
\* NewOrder had changed since load
C14_Witness ==
  /\ prg.id = "STOCKLEVEL"
  /\ prg.unique_ol_i_id # {}
  /\ Stored(orderTbl) # Stored(LoadedDb.orderTbl)

\* the order_line rows of district (W, D) whose order id is one of the last
\* 20 below next_o_id and whose item has less than threshold in stock at W
LowStockLines(W, D, threshold) ==
  LET next_o_id == districtTbl.rows[DistrictOf(districtTbl, W, D)].d_next_o_id
  IN {h \in AllLinesOf(orderLineTbl, W, D) :
        /\ orderLineTbl.rows[h].ol_o_id >= next_o_id - 20
        /\ orderLineTbl.rows[h].ol_o_id < next_o_id
        /\ \E g \in Stored(stockTbl) :
             /\ stockTbl.rows[g].s_i_id = orderLineTbl.rows[h].ol_i_id
             /\ stockTbl.rows[g].s_w_id = W
             /\ stockTbl.rows[g].s_quantity < threshold}

NextOrderIdOf(W, D) == districtTbl.rows[DistrictOf(districtTbl, W, D)].d_next_o_id

\* C16 as stated: when district.next_o_id < 20, StockLevel scans only the
\* order ids in [1, next_o_id): no order id below 1 is probed in the
\* order_line index.
C16_NoProbeBelowOne ==
  (prg.id = "STOCKLEVEL" /\ NextOrderIdOf(prg.w_id, prg.d_id) < 20) =>
    prg.probed = 1..(NextOrderIdOf(prg.w_id, prg.d_id) - 1)

\* C16: StockLevel probes the order_line index for every order id of
\* [next_o_id - 20, next_o_id), ids below 1 included when next_o_id < 20;
\* no order_line row has such an id, so the result is the one a scan of
\* [1, next_o_id) gives.
C16_ProbesWholeWindow ==
  prg.id = "STOCKLEVEL" =>
    LET next_o_id == NextOrderIdOf(prg.w_id, prg.d_id)
    IN /\ prg.probed = {o \in (next_o_id - 20)..next_o_id : o < next_o_id}
       /\ \A h \in AllLinesOf(orderLineTbl, prg.w_id, prg.d_id) :
            orderLineTbl.rows[h].ol_o_id >= 1
       /\ prg.unique_ol_i_id =
            {orderLineTbl.rows[h].ol_i_id :
               h \in {g \in LowStockLines(prg.w_id, prg.d_id, prg.threshold) :
                        orderLineTbl.rows[g].ol_o_id >= 1}}

\* C16 case: a StockLevel on a district whose next_o_id is 4 probed order
\* id -16 and found low stock among the orders 1..3
C16_Witness ==
  /\ prg.id = "STOCKLEVEL"
  /\ NextOrderIdOf(prg.w_id, prg.d_id) = 4
  /\ -16 \in prg.probed
  /\ prg.unique_ol_i_id # {}

\* the item row of id it and the stock row of item it at warehouse w
ItemOf(it) == CHOOSE h \in Stored(itemTbl) : itemTbl.rows[h].i_id = it

StockOf(it, w) ==
  CHOOSE h \in Stored(stockTbl) :
    stockTbl.rows[h].s_i_id = it /\ stockTbl.rows[h].s_w_id = w

\* C17: in a committed NewOrder, for every line i, brand_grade[i] is "B" if
\* and only if both the data of item i_id[i] and the s_data of stock
\* (i_id[i], supply_w_id[i]) contain "original"; otherwise it is "G".
C17_BrandGradeFromItemAndStock ==
  (prg.id = "NEWORDER" /\ ~HasBadItem(prg) /\ ~fault) =>
    \A k \in 1..prg.o_ol_cnt :
      prg.bg[k] =
        IF /\ Contains(itemTbl.rows[ItemOf(prg.itemid[k])].i_data, s_original)
           /\ Contains(stockTbl.rows[StockOf(prg.itemid[k], prg.supware[k])].s_data,
                       s_original)
          THEN s_B
          ELSE s_G

NewOrderCommits == NewOrderStep /\ ~HasBadItem(prg') /\ ~fault'

WarehouseOf(st, w) == CHOOSE h \in Stored(st) : st.rows[h].w_id = w

\* the customer a Payment step selected has "BC" in its c_credit
PaidCustomerIsBC == Contains(customerTbl.rows[prg'.ite15946].c_credit, s_BC)

\* C19: a Payment(W, D, customer, h_amount) against a customer whose c_credit
\* does not contain "BC" adds h_amount to w_ytd of warehouse W, to d_ytd of
\* district (W, D) and to the customer's c_balance, appends exactly one
\* history row (c_id, c_d_id, c_w_id, D, W, timestamp, h_amount, h_data) and
\* leaves the customer's c_data unchanged.
C19_PaymentGoodCredit ==
  [][(PaymentStep /\ ~PaidCustomerIsBC) =>
       LET W == prg'.w_id
           D == prg'.d_id
           w == WarehouseOf(warehouseTbl, W)
           d == DistrictOf(districtTbl, W, D)
           c == prg'.ite15946
           H == Inserted(historyTbl, historyTbl')
       IN /\ warehouseTbl'.rows[w].w_ytd = warehouseTbl.rows[w].w_ytd + prg'.h_amount
          /\ districtTbl'.rows[d].d_ytd = districtTbl.rows[d].d_ytd + prg'.h_amount
          /\ customerTbl'.rows[c].c_balance
               = customerTbl.rows[c].c_balance + prg'.h_amount
          /\ customerTbl'.rows[c].c_data = customerTbl.rows[c].c_data
          /\ Cardinality(H) = 1
          /\ Deleted(historyTbl, historyTbl') = {}
          /\ \A h \in H :
               LET r == historyTbl'.rows[h]
               IN /\ r.h_c_id = customerTbl.rows[c].c_id
                  /\ r.h_c_d_id = customerTbl.rows[c].c_d_id
                  /\ r.h_c_w_id = customerTbl.rows[c].c_w_id
                  /\ r.h_d_id = D
                  /\ r.h_w_id = W
                  /\ r.h_date = prg'.datetime
                  /\ r.h_amount = prg'.h_amount
                  /\ Len(r.h_data) > 0]_vars

\* C19 case: a Payment to district 1 by customer 1 of district 2, whose
\* credit is "GC", left the customer's loaded c_data and raised its balance
C19_Witness ==
  /\ prg.id = "PAYMENTBYID"
  /\ prg.d_id = 1
  /\ prg.c_d_id = 2
  /\ i = 1
  /\ LET c == customerTbl.rows[prg.ite15946]
     IN /\ c.c_credit = s_GC
        /\ c.c_d_id = 2
        /\ c.c_data = CustomerRow(c.c_id, 2, 1).c_data
        /\ c.c_balance = CustomerRow(c.c_id, 2, 1).c_balance + prg.h_amount

\* the decimal text of a natural number
RECURSIVE Decimal(_)
Decimal(n) == IF n < 10 THEN <<48 + n>> ELSE Append(Decimal(n \div 10), 48 + (n % 10))

\* the text of an amount of 1/10000 units with six decimals, as "25.000000"
AmountText(a) ==
  LET f == (a % 10000) * 100
  IN Decimal(a \div 10000) \o <<46>>
       \o [k \in 1..6 |-> 48 + ((f \div (10 ^ (6 - k))) % 10)]

\* "<c_id> <c_d_id> <c_w_id> <d_id> <w_id> $<h_amount> <date> | " of the Payment
\* a step ran, c being the customer row it selected
PaymentPrefix(c) ==
  Decimal(c.c_id) \o <<32>> \o Decimal(c.c_d_id) \o <<32>> \o Decimal(c.c_w_id) \o <<32>>
    \o Decimal(prg'.d_id) \o <<32>> \o Decimal(prg'.w_id) \o <<32, 36>>
    \o AmountText(prg'.h_amount) \o <<32>> \o IntToStrdate(prg'.datetime)
    \o <<32, 124, 32>>

\* the first n bytes of a text, all of it when it has no more
CutTo(s, n) == [k \in 1..(IF Len(s) < n THEN Len(s) ELSE n) |-> s[k]]

\* C20: a Payment against a customer whose c_credit contains "BC" replaces
\* c_data by "<c_id> <c_d_id> <c_w_id> <d_id> <w_id> $<h_amount> <date> | <old
\* c_data>" cut to at most 500 bytes; so after any number of Payments every
\* customer's c_data has at most 500 bytes and the prefix of the most recent
\* payment comes first.
C20_PaymentBadCredit ==
  /\ [](\A h \in Stored(customerTbl) : Len(customerTbl.rows[h].c_data) <= 500)
  /\ [][(PaymentStep /\ PaidCustomerIsBC) =>
          LET c == prg'.ite15946
              old == customerTbl.rows[c]
          IN customerTbl'.rows[c].c_data = CutTo(PaymentPrefix(old) \o old.c_data, 500)]_vars

\* C20 case: a second Payment against a "BC" customer whose text was cut to
\* 500 bytes by the first put its own prefix, of another district, in front
C20_Witness ==
  /\ prg.id \in {"PAYMENTBYID", "PAYMENTBYNAME"}
  /\ i = 2
  /\ prg.d_id = 2
  /\ LET c == customerTbl.rows[prg.ite15946]
     IN /\ c.c_credit = s_BC
        /\ Len(c.c_data) = 500
        /\ SubSeq(c.c_data, 1, 10) = <<50, 32, 48 + c.c_d_id, 32, 49, 32, 50, 32, 49, 32>>
        /\ SubSeq(c.c_data, 26, 35) = <<50, 32, 48 + c.c_d_id, 32, 49, 32, 49, 32, 49, 32>>

\* a step of the dispatch loop, as against the end of main
ProgramStep == prg'.id # "EXIT"

\* the stores a program record p leaves when its transaction runs on db
ProgramEffect(db, p) ==
  CASE p.id = "NEWORDER" ->
         NewOrderTx(db, p.datetime, p.w_id, p.d_id, p.c_id, p.o_ol_cnt, p.o_all_local,
                    p.itemid, p.supware, p.quantity).db
    [] p.id \in {"PAYMENTBYID", "PAYMENTBYNAME"} ->
         PaymentTx(db, p.datetime, p.w_id, p.d_id,
                   IF p.id = "PAYMENTBYNAME" THEN 1 ELSE 0, p.c_w_id, p.c_d_id, p.c_id,
                   p.c_last_input, p.h_amount, p.x15947).db
    [] p.id = "DELIVERY" -> DeliveryTx(db, p.datetime, p.w_id, p.o_carrier_id).db
    [] OTHER -> db

\* C21: the dispatcher runs the programs in list order, one at a time: each
\* step of the loop runs the one program at position i and moves to i + 1,
\* the program works on exactly the tables the step before left and leaves
\* its own result; a rolled-back NewOrder counts as run and is not retried.
C21_ProgramsInListOrder ==
  [][ProgramStep =>
       /\ i' = i + 1
       /\ i < numPrograms
       /\ Db' = ProgramEffect(Db, prg')
       /\ (prg'.id = "NEWORDER" /\ HasBadItem(prg')) => tables' = tables]_vars

\* C21 case: the second program of the list, a NewOrder, found the district
\* counter the first NewOrder had left; and the list went on after a
\* NewOrder that rolled back
C21_Witness ==
  /\ i = 2
  /\ prg.id = "NEWORDER"
  /\ HasBadItem(prg)
  /\ \E d \in DistInputs : NextOrderIdOf(1, d) = LoadedNextOrderId(d) + 1

\* the number of programs of the list the model follows
ListLength == IF numPrograms < MaxPrograms THEN numPrograms ELSE MaxPrograms

\* the item reads of the NewOrder record p on the stores db: the counter
\* x289 when the first loop ends
NewOrderItemReads(db, p) ==
  NewOrderItemLoop(db, p.itemid, p.o_ol_cnt,
                   [x289 |-> 0, x297 |-> 1, x283 |-> Unset(p.o_ol_cnt),
                    x284 |-> Unset(p.o_ol_cnt), idata |-> Unset(p.o_ol_cnt)]).x289

\* main ends with status 0 after the last program of the list
ExitsAfterList == prg'.id = "EXIT" => (prg'.status = 0 /\ i' = ListLength)

\* a Delivery leaves its loop with x18 = 11, after 10 district iterations
DeliveryIterations ==
  DeliveryStep =>
    /\ DeliveryTx(Db, prg'.datetime, prg'.w_id, prg'.o_carrier_id).x18 = NumDistricts + 1
    /\ DOMAIN prg'.orderIDs = 1..10

\* a StockLevel probes 20 order ids
StockLevelIterations ==
  (prg'.id = "STOCKLEVEL" /\ i' = i + 1) => Cardinality(prg'.probed) = 20

\* a NewOrder of N lines reads at most N items and writes at most N lines
NewOrderIterations ==
  NewOrderStep =>
    /\ NewOrderItemReads(Db, prg') <= prg'.o_ol_cnt
    /\ Cardinality(Inserted(orderLineTbl, orderLineTbl')) <= prg'.o_ol_cnt

\* C22: for every list of valid programs the driver terminates: it
\* dispatches exactly the programs of the list, every procedure terminates
\* (Delivery after exactly 10 district iterations, StockLevel after exactly
\* 20 order ids, NewOrder after at most N item reads and N line writes) and
\* the process then ends with exit status 0.
C22_DriverTerminates ==
  /\ <>(prg.id = "EXIT" /\ ~fault)
  /\ [][ExitsAfterList /\ DeliveryIterations /\ StockLevelIterations
          /\ NewOrderIterations]_<<i, prg.id>>

\* C22 case: main ended with status 0 after a list whose last program was a
\* Delivery that emptied district 2 and whose first was a NewOrder
C22_Witness ==
  /\ prg.id = "EXIT"
  /\ prg.status = 0
  /\ i = ListLength
  /\ Cardinality(Stored(orderTbl)) > Cardinality(Stored(LoadedDb.orderTbl))
  /\ Cardinality(Stored(newOrderTbl)) = Cardinality(Stored(LoadedDb.newOrderTbl))

\* every row the history store holds is still there, unchanged
HistoryKept ==
  \A h \in Stored(historyTbl) :
    h \in Stored(historyTbl') /\ historyTbl'.rows[h] = historyTbl.rows[h]

\* C23: after loading no transaction inserts, changes or deletes an item row,
\* and none changes or deletes a history row: the history table only grows,
\* by one row in each Payment.
C23_ItemAndHistoryKept ==
  [][/\ itemTbl' = itemTbl
     /\ HistoryKept
     /\ Cardinality(Inserted(historyTbl, historyTbl')) = (IF PaymentStep THEN 1 ELSE 0)]_vars

\* C23 case: a Payment has appended to the loaded history after a NewOrder
\* read the items
C23_Witness ==
  /\ i = 2
  /\ prg.id = "PAYMENTBYNAME"
  /\ Cardinality(Stored(orderTbl)) > Cardinality(Stored(LoadedDb.orderTbl))
  /\ itemTbl = LoadedDb.itemTbl
  /\ Cardinality(Stored(historyTbl)) = Cardinality(Stored(LoadedDb.historyTbl)) + 1

\* the new_order rows of district d a step removes
DeletedPending(d) ==
  {h \in Deleted(newOrderTbl, newOrderTbl') : newOrderTbl.rows[h].no_d_id = d}

\* a step removes no row of the eight stores other than new_order
OnlyNewOrderShrinks ==
  /\ Deleted(warehouseTbl, warehouseTbl') = {}
  /\ Deleted(districtTbl, districtTbl') = {}
  /\ Deleted(customerTbl, customerTbl') = {}
  /\ Deleted(itemTbl, itemTbl') = {}
  /\ Deleted(stockTbl, stockTbl') = {}
  /\ Deleted(orderTbl, orderTbl') = {}
  /\ Deleted(orderLineTbl, orderLineTbl') = {}
  /\ Deleted(historyTbl, historyTbl') = {}

\* C24: rows are deleted only from new_order and only by Delivery; one
\* Delivery deletes at most one new_order row per district, at most 10 in
\* all; no transaction deletes a row of another table.
C24_OnlyDeliveryDeletes ==
  [][/\ OnlyNewOrderShrinks
     /\ Deleted(newOrderTbl, newOrderTbl') # {} => DeliveryStep
     /\ \A d \in 1..NumDistricts : Cardinality(DeletedPending(d)) <= 1
     /\ Cardinality(Deleted(newOrderTbl, newOrderTbl')) <= NumDistricts]_vars

\* C24 case: a Delivery has deleted one of the two pending rows of
\* district 2 and left the other
C24_Witness ==
  /\ i = 1
  /\ prg.id = "DELIVERY"
  /\ Cardinality(Stored(newOrderTbl)) = Cardinality(Stored(LoadedDb.newOrderTbl)) - 1
  /\ \E h \in Stored(newOrderTbl) : newOrderTbl.rows[h].no_d_id = 2

\* the first line of the NewOrder record p whose item id has no item row
FirstBadLine(p) ==
  CHOOSE k \in 1..p.o_ol_cnt :
    /\ p.itemid[k] \notin ItemIds
    /\ \A j \in 1..(k - 1) : p.itemid[j] \in ItemIds

\* the price output of line k holds the price of the line's item
PriceRecorded(p, k) == p.price[k] = itemTbl.rows[ItemOf(p.itemid[k])].i_price

\* C25 as stated: after the first line whose item lookup fails the item
\* loop still reads the items of all remaining lines, recording the price
\* of those that are found.
C25_ReadsEveryLineAfterMiss ==
  [][(NewOrderStep /\ HasBadItem(prg')) =>
       /\ NewOrderItemReads(Db, prg') = prg'.o_ol_cnt
       /\ \A k \in 1..prg'.o_ol_cnt :
            prg'.itemid[k] \in ItemIds => PriceRecorded(prg', k)]_vars

\* C25 amended: the item loop ends with the first line whose item lookup
\* fails: the lines before it have their price and name recorded, the lines
\* after it are not read (their outputs stay unwritten), and the write phase
\* is skipped.
C25_StopsAtFirstMiss ==
  [][(NewOrderStep /\ HasBadItem(prg')) =>
       /\ NewOrderItemReads(Db, prg') = FirstBadLine(prg')
       /\ \A k \in 1..(FirstBadLine(prg') - 1) :
            /\ PriceRecorded(prg', k)
            /\ prg'.iname[k] = itemTbl.rows[ItemOf(prg'.itemid[k])].i_name
       /\ \A k \in FirstBadLine(prg')..prg'.o_ol_cnt :
            prg'.price[k] = NULL /\ prg'.iname[k] = NULL
       /\ tables' = tables]_vars

\* C25 case: a NewOrder of two lines whose first item is missing and whose
\* second exists has run, and the second line has no price
C25_Witness ==
  /\ prg.id = "NEWORDER"
  /\ prg.o_ol_cnt = 2
  /\ prg.itemid[1] \notin ItemIds
  /\ prg.itemid[2] \in ItemIds
  /\ prg.price[2] = NULL

\* the s_quantity of the stock row (it, w) before line k of the NewOrder
\* record p is processed, counted from the stock table of the current state
RECURSIVE QuantityBeforeLine(_, _, _, _)
QuantityBeforeLine(p, k, it, w) ==
  IF k = 1 THEN stockTbl.rows[StockOf(it, w)].s_quantity
  ELSE LET q == QuantityBeforeLine(p, k - 1, it, w)
       IN IF p.itemid[k - 1] = it /\ p.supware[k - 1] = w
            THEN (IF q > p.quantity[k - 1] THEN q - p.quantity[k - 1]
                                           ELSE q - p.quantity[k - 1] + 91)
            ELSE q

\* C26: for each line of a committed NewOrder, with q the s_quantity of the
\* line's stock row before the line is processed: the output stock_qty is q
\* and the row is left with q - quantity when q > quantity and with
\* q - quantity + 91 otherwise; a second line on the same stock row sees the
\* quantity the first left.
C26_StockQuantityPerLine ==
  [][NewOrderCommits =>
       /\ \A k \in 1..prg'.o_ol_cnt :
            prg'.stock[k] = QuantityBeforeLine(prg', k, prg'.itemid[k], prg'.supware[k])
       /\ \A h \in Stored(stockTbl) :
            stockTbl'.rows[h].s_quantity =
              QuantityBeforeLine(prg', prg'.o_ol_cnt + 1, stockTbl.rows[h].s_i_id,
                                 stockTbl.rows[h].s_w_id)]_vars

\* C26 case: a committed NewOrder named stock row (1, 1) in both of its
\* lines: the first found 5 and refilled it, the second found 91
C26_Witness ==
  /\ i = 1
  /\ prg.id = "NEWORDER"
  /\ prg.o_ol_cnt = 2
  /\ prg.itemid = <<1, 1>>
  /\ prg.quantity = <<5, 5>>
  /\ prg.stock = <<5, 91>>
  /\ stockTbl.rows[StockOf(1, 1)].s_quantity = 86

\* the rows a step adds to a store
InsertedRows(st, st1) == {st1.rows[h] : h \in Inserted(st, st1)}

\* the order row without its all-local flag
OrderHead(o) ==
  <<o.o_id, o.o_d_id, o.o_w_id, o.o_c_id, o.o_entry_d, o.o_carrier_id, o.o_ol_cnt>>

\* the order_line row without its amount and district string
LineHead(l) ==
  <<l.ol_o_id, l.ol_d_id, l.ol_w_id, l.ol_number, l.ol_delivery_d, l.ol_i_id,
    l.ol_supply_w_id, l.ol_quantity>>

\* C27: a committed NewOrder(W, D, C, N), with n0 the district's next_o_id
\* before the call, inserts the order row (n0, D, W, C, timestamp, -1, N),
\* the new_order row (n0, D, W) and the order_line rows (n0, D, W, k) for
\* k = 1..N, each with ol_delivery_d 0 and the k-th item, supply warehouse
\* and quantity.
C27_InsertedRows ==
  [][NewOrderCommits =>
       LET p == prg'
           n0 == NextOrderIdOf(p.w_id, p.d_id)
       IN /\ Cardinality(Inserted(orderTbl, orderTbl')) = 1
          /\ {OrderHead(o) : o \in InsertedRows(orderTbl, orderTbl')} =
               {<<n0, p.d_id, p.w_id, p.c_id, p.datetime, -1, p.o_ol_cnt>>}
          /\ Cardinality(Inserted(newOrderTbl, newOrderTbl')) = 1
          /\ InsertedRows(newOrderTbl, newOrderTbl') =
               {[no_o_id |-> n0, no_d_id |-> p.d_id, no_w_id |-> p.w_id]}
          /\ Cardinality(Inserted(orderLineTbl, orderLineTbl')) = p.o_ol_cnt
          /\ {LineHead(l) : l \in InsertedRows(orderLineTbl, orderLineTbl')} =
               {<<n0, p.d_id, p.w_id, k, 0, p.itemid[k], p.supware[k], p.quantity[k]>> :
                  k \in 1..p.o_ol_cnt}]_vars

\* C27 case: the second NewOrder of district 2 has committed with two lines
\* of different items, after the first took the loaded next_o_id
C27_Witness ==
  /\ i = 2
  /\ prg.id = "NEWORDER"
  /\ ~HasBadItem(prg)
  /\ prg.d_id = 2
  /\ prg.itemid = <<2, 1>>
  /\ NextOrderIdOf(1, 2) = LoadedNextOrderId(2) + 2
  /\ Cardinality(Stored(orderLineTbl)) >= Cardinality(Stored(LoadedDb.orderLineTbl)) + 3

\* the order_line rows a step adds with line number k
InsertedLine(k) ==
  {l \in InsertedRows(orderLineTbl, orderLineTbl') : l.ol_number = k}

\* C28: in a committed NewOrder for district D in 1..10 the ol_dist_info of
\* every inserted order_line is the D-th of the ten district strings of the
\* line's stock row: D = 1 selects s_dist_01, ..., D = 10 selects s_dist_10.
C28_DistInfoOfDistrict ==
  [][NewOrderCommits =>
       \A k \in 1..prg'.o_ol_cnt :
         LET x11223 == stockTbl.rows[StockOf(prg'.itemid[k], prg'.supware[k])]
         IN /\ \A l \in InsertedLine(k) : l.ol_dist_info = x11223.s_dist[prg'.d_id]
            /\ InsertedLine(k) # {}
            /\ \A D \in 1..10 : StockDistInfo(x11223, D) = x11223.s_dist[D]]_vars

\* C28 case: a committed NewOrder of district 2 has left a second line whose
\* district string is s_dist_02 of the stock row of item 2
C28_Witness ==
  /\ i = 1
  /\ prg.id = "NEWORDER"
  /\ prg.d_id = 2
  /\ prg.itemid = <<1, 2>>
  /\ \E h \in Stored(orderLineTbl) :
       /\ orderLineTbl.rows[h].ol_o_id = LoadedNextOrderId(2)
       /\ orderLineTbl.rows[h].ol_d_id = 2
       /\ orderLineTbl.rows[h].ol_number = 2
       /\ orderLineTbl.rows[h].ol_dist_info = stockTbl.rows[StockOf(2, 1)].s_dist[2]
       /\ orderLineTbl.rows[h].ol_dist_info # stockTbl.rows[StockOf(2, 1)].s_dist[1]
       /\ orderLineTbl.rows[h].ol_dist_info # stockTbl.rows[StockOf(1, 1)].s_dist[2]

\* the largest o_id among the order rows of district (w, d), 0 without rows
LargestOrderId(w, d) ==
  IF OrdersOf(orderTbl, w, d) = {} THEN 0
  ELSE GreatestOrderId(orderTbl, OrdersOf(orderTbl, w, d))

\* every district's next_o_id is one past the largest o_id of its orders
NextOrderIdPastOrders ==
  \A w \in LoadedWarehouses, d \in LoadedDistricts :
    NextOrderIdOf(w, d) = 1 + LargestOrderId(w, d)

\* the step leaves next_o_id of district (w, d) alone, or it is a committed
\* NewOrder of that district that takes it as a fresh o_id and adds 1
NextOrderIdStep(w, d) ==
  \/ NextOrderIdOf(w, d)' = NextOrderIdOf(w, d)
  \/ /\ NextOrderIdOf(w, d)' = NextOrderIdOf(w, d) + 1
     /\ NewOrderCommits
     /\ prg'.w_id = w
     /\ prg'.d_id = d
     /\ \A h \in OrdersOf(orderTbl, w, d) : orderTbl.rows[h].o_id # NextOrderIdOf(w, d)
     /\ \E h \in Inserted(orderTbl, orderTbl') :
          /\ orderTbl'.rows[h].o_id = NextOrderIdOf(w, d)
          /\ orderTbl'.rows[h].o_d_id = d
          /\ orderTbl'.rows[h].o_w_id = w

\* C29: the next_o_id of a district never decreases, changes only by +1 in a
\* committed NewOrder of that district, and always is 1 + the largest o_id of
\* the district's order rows, so that every committed NewOrder receives an
\* o_id not used before in its district.
C29_NextOrderIdMonotone ==
  [][/\ NextOrderIdPastOrders
     /\ NextOrderIdPastOrders'
     /\ Deleted(orderTbl, orderTbl') = {}
     /\ \A w \in LoadedWarehouses, d \in LoadedDistricts : NextOrderIdStep(w, d)]_vars

\* C29 case: district 1 has given out two order ids in two committed
\* NewOrders while district 2 kept its own
C29_Witness ==
  /\ i = 2
  /\ prg.id = "NEWORDER"
  /\ NextOrderIdOf(1, 1) = LoadedNextOrderId(1) + 2
  /\ NextOrderIdOf(1, 2) = LoadedNextOrderId(2)
  /\ LargestOrderId(1, 1) = LoadedNextOrderId(1) + 1

\* the order ids pending in district (w, d): those with a new_order row
PendingIds(w, d) ==
  {newOrderTbl.rows[h].no_o_id : h \in NewOrdersOf(newOrderTbl, w, d)}

\* the order ids of district (w, d) whose new_order row the step removes
RemovedIds(w, d) ==
  {newOrderTbl.rows[h].no_o_id :
     h \in NewOrdersOf(newOrderTbl, w, d) \cap Deleted(newOrderTbl, newOrderTbl')}

\* the order ids of district (w, d) whose carrier the step sets
CarriedIds(w, d) ==
  {orderTbl.rows[h].o_id :
     h \in {g \in OrdersOf(orderTbl, w, d) :
              orderTbl'.rows[g].o_carrier_id # orderTbl.rows[g].o_carrier_id}}

CustomerHasKey(h, c, d, w) ==
  /\ h \in Stored(customerTbl)
  /\ customerTbl.rows[h].c_id = c
  /\ customerTbl.rows[h].c_d_id = d
  /\ customerTbl.rows[h].c_w_id = w

\* the step changes none of the stores st names
Keeps(names) == \A n \in names : Db'[n] = Db[n]

\* what the step of a record with tag prg'.id shows of the procedure called
DispatchedAs(p) ==
  CASE p.id = "NEWORDER" ->
         /\ Keeps({"warehouseTbl", "customerTbl", "itemTbl", "historyTbl"})
         /\ Db' = NewOrderTx(Db, p.datetime, p.w_id, p.d_id, p.c_id, p.o_ol_cnt,
                             p.o_all_local, p.itemid, p.supware, p.quantity).db
    [] p.id = "PAYMENTBYID" ->
         /\ Keeps({"itemTbl", "stockTbl", "orderTbl", "newOrderTbl", "orderLineTbl"})
         /\ CustomerHasKey(p.ite15946, p.c_id, p.c_d_id, p.c_w_id)
         /\ Cardinality(Inserted(historyTbl, historyTbl')) = 1
    [] p.id = "PAYMENTBYNAME" ->
         /\ Keeps({"itemTbl", "stockTbl", "orderTbl", "newOrderTbl", "orderLineTbl"})
         /\ p.ite15946 \in Matches(p.c_w_id, p.c_d_id, p.c_last_input)
         /\ Cardinality(Inserted(historyTbl, historyTbl')) = 1
    [] p.id = "ORDERSTATUSBYID" ->
         /\ tables' = tables
         /\ CustomerHasKey(p.ite15845, p.c_id, p.d_id, p.w_id)
    [] p.id = "ORDERSTATUSBYNAME" ->
         /\ tables' = tables
         /\ p.ite15845 \in Matches(p.w_id, p.d_id, p.c_last)
    [] p.id = "DELIVERY" ->
         /\ Keeps({"warehouseTbl", "districtTbl", "itemTbl", "stockTbl", "historyTbl"})
         /\ Db' = DeliveryTx(Db, p.datetime, p.w_id, p.o_carrier_id).db
    [] p.id = "STOCKLEVEL" ->
         /\ tables' = tables
         /\ p.probed = StockLevelOrderIds(NextOrderIdOf(p.w_id, p.d_id))
    [] OTHER -> tables' = tables

\* C31: the dispatcher maps each tag to exactly one procedure call: NEWORDER
\* to NewOrder, PAYMENTBYID and PAYMENTBYNAME to Payment with by-name flag 0
\* and 1, ORDERSTATUSBYID and ORDERSTATUSBYNAME to OrderStatus with flag 0
\* and 1, DELIVERY to Delivery, STOCKLEVEL to StockLevel; a record with any
\* other tag changes no table and the loop goes on with the next record.
C31_TagSelectsProcedure ==
  [][ProgramStep => (DispatchedAs(prg') /\ i' = i + 1)]_vars

\* C31 case: after a Payment, a record with an unknown tag was passed over:
\* the loop counted it and the tables are those the Payment left
C31_Witness ==
  /\ i = 2
  /\ prg.id = "UNKNOWN"
  /\ Cardinality(Stored(historyTbl)) =
       Cardinality(Stored(Load(historyTblStoreType, LoadedHistory))) + 1
  /\ \E w \in LoadedWarehouses : wPaid[w] > 0

\* C32 as stated: for every valid primary key (warehouse 1..numWare,
\* district 1..10, customer 1..3000, item 1..100000) the slot the
\* direct-array key extractor of warehouse, district, customer, item and
\* stock computes is >= 0 and below the capacity of the array index.
C32_SlotWithinCapacity ==
  prg.id = "LOAD" => (prg.slot >= 0 /\ prg.slot < prg.capacity)

\* the rows of a direct-array store have pairwise different slots, and each
\* is the row its own key finds
SlotsApart(st, T) ==
  \A h \in Handles(st) :
    /\ \A g \in Handles(st) \ {h} : ArraySlot(T, st.rows[g]) # ArraySlot(T, st.rows[h])
    /\ (ArraySlot(T, st.rows[h]) < T[1].arg) => StoreGet(st, T, 0, st.rows[h]) = h

\* C33 as stated: primary keys are unique in the direct-array tables: for
\* numWare = 2, two district rows with different (d_w_id, d_id), two customer
\* rows with different (c_w_id, c_d_id, c_id) or two stock rows with
\* different (s_i_id, s_w_id) never map to the same array slot, so storing
\* one never overwrites or hides the other.
C33_KeysHaveOwnSlots ==
  /\ SlotsApart(districtTbl, districtTblStoreType)
  /\ SlotsApart(customerTbl, customerTblStoreType)
  /\ SlotsApart(stockTbl, stockTblStoreType)

\* the capacities other than the customer table's, as the data model has them
SizesOfDataModel(W, P, size) ==
  /\ size.warehouse = 8 * ((W \div 8) + 1)
  /\ size.district = 8 * (((10 * W) \div 8) + 1)
  /\ size.item = 100000
  /\ size.stock = W * 100000
  /\ size.orderLine = 12 * size.order
  /\ size.history = size.order

\* C34 as stated: for every W and P the table capacities fixed at program
\* start are warehouse 8*(W/8+1), district 8*(10W/8+1), customer 30000 *
\* district capacity, item 100000, stock W*100000, order_line 12 * order
\* capacity, history = order capacity.
C34_CapacitiesOfDataModel ==
  prg.id = "SIZES" =>
    /\ SizesOfDataModel(prg.W, prg.P, prg.size)
    /\ prg.size.customer = 30000 * prg.size.district

\* C34 amended: as stated, but with customer capacity 3000 * district
\* capacity.
C34_CapacitiesWith3000 ==
  prg.id = "SIZES" =>
    /\ SizesOfDataModel(prg.W, prg.P, prg.size)
    /\ prg.size.customer = 3000 * prg.size.district

\* C34 case: the sizes of a build with 16 warehouses and an odd number of
\* programs: both integer divisions have stepped
C34_Witness ==
  /\ prg.id = "SIZES"
  /\ prg.W = 16
  /\ prg.P = 3
  /\ prg.size.warehouse = 24
  /\ prg.size.district = 168
  /\ prg.size.customer = 504000

(* ---------------------- hash indices: hash() and cmp() ------------------ *)
(* Lines 201-1464 are compiled with int standing for unsigned int: the     *)
(* hashers work on 32-bit words.  A word is the pair <<high, low>> of its  *)
(* 16-bit halves.                                                           *)

\* the least double, -1.7976931348623157E308, an unset h_amount: the least
\* amount of the fixed-point amounts
DBL_LOWEST == -2147483647

\* the arithmetic of unsigned int: "int" the word of a signed value, "^16" the
\* exclusive or of two halves, "^" "*" "+" of two words, "rotl" the pair
\* a << n | a >> (-n & 31) and ">>" the right shift, both by n <= 16 places
RECURSIVE U32(_, _, _)
U32(op, a, b) ==
  CASE op = "int" -> <<(a \div 65536) % 65536, a % 65536>>
    [] op = "^16" ->
         IF a = 0 THEN b
         ELSE IF b = 0 THEN a
         ELSE (((a % 2) + (b % 2)) % 2) + 2 * U32("^16", a \div 2, b \div 2)
    [] op = "^" -> <<U32("^16", a[1], b[1]), U32("^16", a[2], b[2])>>
    [] op = "+" ->
         <<(a[1] + b[1] + ((a[2] + b[2]) \div 65536)) % 65536, (a[2] + b[2]) % 65536>>
    [] op = "*" ->
         LET p0 == (a[2] % 256) * b[2]
             p1 == (a[2] \div 256) * b[2]
             s == p0 + ((p1 % 256) * 256)
             low(x, y) == (((x % 256) * y) + ((((x \div 256) * y) % 256) * 256)) % 65536
         IN <<((p1 \div 256) + (s \div 65536) + low(a[1], b[2]) + low(a[2], b[1])) % 65536,
              s % 65536>>
    [] op = "rotl" ->
         <<((a[1] * (2^b)) % 65536) + (a[2] \div (2^(16 - b))),
           ((a[2] * (2^b)) % 65536) + (a[1] \div (2^(16 - b)))>>
    [] op = ">>" ->
         <<a[1] \div (2^b), (a[2] \div (2^b)) + (a[1] % (2^b)) * (2^(16 - b))>>

\* HASH(v): the 32-bit hash of one field; a number hashes to its own word, a
\* PString to the fold h * 31 + c of its bytes
RECURSIVE HASH(_, _)
HASH(v, isString) ==
  IF ~isString THEN U32("int", v, 0)
  ELSE IF v = <<>> THEN U32("int", 0, 0)
  ELSE U32("+", U32("*", HASH(SubSeq(v, 1, Len(v) - 1), TRUE), U32("int", 31, 0)),
           U32("int", v[Len(v)], 0))

\* lines 676-689: one field x folded into the hash h, each word of the chain
\* taken in turn
HashMix(h, x) ==
  CHOOSE r \in
    {U32("+", x3783, U32("int", -430675100, 0)) :
       x3783 \in {U32("*", x3782, U32("int", 5, 0)) :
         x3782 \in {U32("rotl", x3779, 13) :
           x3779 \in {U32("^", x3777, h) :
             x3777 \in {U32("*", x3776, U32("int", 461845907, 0)) :
               x3776 \in {U32("rotl", x3773, 15) :
                 x3773 \in {U32("*", U32("int", -862048943, 0), x)}}}}}}} : TRUE

\* lines 675-794: the fields of the key from the n-th on folded in turn into
\* x3770; x3784 is the word line 689 stores back into x3770
RECURSIVE HashFold(_, _, _)
HashFold(x3770, hs, n) ==
  IF n > Len(hs) THEN x3770
  ELSE CHOOSE r \in {HashFold(x3784, hs, n + 1) : x3784 \in {HashMix(x3770, hs[n])}} : TRUE

\* lines 795-805: the final mix of the folded word x3891
HashFinal(x3891) ==
  CHOOSE r \in
    {U32("^", x3898, U32(">>", x3898, 16)) :
       x3898 \in {U32("*", x3897, U32("int", -1028477387, 0)) :
         x3897 \in {U32("^", x3895, U32(">>", x3895, 13)) :
           x3895 \in {U32("*", x3894, U32("int", -2048144789, 0)) :
             x3894 \in {U32("^", x3892, U32(">>", x3892, 16)) :
               x3892 \in {U32("^", x3891, U32("int", 2, 0))}}}}}} : TRUE

\* hash(): the HASH of the key fields folded from line 674's -889275714, then
\* the final mix
hash(fn, x) ==
  CHOOSE r \in
    {HashFinal(x3891) :
       x3891 \in {HashFold(U32("int", -889275714, 0), hs, 1) :
         hs \in {[j \in DOMAIN key |->
                    HASH(key[j], \/ fn = "SEntry8_IIIIITDS_Idx" /\ j = 8
                                 \/ fn = "SEntry21_IIISSSSSSSSSTSDDDDIIS_Idx236" /\ j = 3)] :
           key \in {IdxKey(fn, x)}}}} : TRUE

\* cmp(): 0 when the rows are equal for the index.  The history cmp() of lines
\* 807-1045 takes _1.._7 in turn and never looks at _8; a field passes when
\* either side holds the unset value or both are the same.  An int field is
\* read as an unsigned int and set against the long -2147483648.
cmp(fn, x, y) ==
  IF fn = "SEntry8_IIIIITDS_Idx"
  THEN LET asLong(v) == <<0, 0>> \o U32("int", v, 0)
           unsetInt == <<65535, 65535>> \o U32("int", -2147483647 - 1, 0)
           ints(a, b) == asLong(a) = unsetInt \/ asLong(b) = unsetInt \/ a = b
           others(a, b, unset) == a = unset \/ b = unset \/ a = b
       IN IF /\ ints(x.h_c_id, y.h_c_id)
             /\ ints(x.h_c_d_id, y.h_c_d_id)
             /\ ints(x.h_c_w_id, y.h_c_w_id)
             /\ ints(x.h_d_id, y.h_d_id)
             /\ ints(x.h_w_id, y.h_w_id)
             /\ others(x.h_date, y.h_date, 0)
             /\ others(x.h_amount, y.h_amount, DBL_LOWEST)
          THEN 0 ELSE 1
  ELSE IF IdxKey(fn, x) = IdxKey(fn, y) THEN 0 ELSE 1

\* the rows hash() and cmp() of an index are applied to
HashRows(fn) ==
  CASE fn = "SEntry8_IIIIITDS_Idx" ->
         { HistoryRow(c, 1, 1, 1, 1, date, amount, data) :
             c \in {1, 2}, date \in {0} \cup DateInputs,
             amount \in {DBL_LOWEST} \cup AmountInputs,
             data \in {PaymentHData(<<87, 49>>, <<68, 49>>),
                       PaymentHData(<<87, 49>>, <<68, 50>>)} }
    [] fn \in {"SEntry8_IIIITIIB_Idx123", "SEntry8_IIIITIIB_Idx234"} ->
         { OrderRow(o, 1, 1, c, 7, carrier, 1, 1) :
             o \in {1, 2}, c \in {1, 2}, carrier \in {NoCarrier} \cup CarrierInputs }
    [] fn \in {"SEntry3_III_Idx123", "SEntry3_III_Idx23"} ->
         { NewOrderRow(o, d, 1) : o \in {1, 2}, d \in {1, 2} }
    [] fn \in {"SEntry10_IIIIIITIDS_Idx1234", "SEntry10_IIIIIITIDS_Idx123"} ->
         { OrderLineRow(o, 1, 1, n, 1, 1, NULL, q, 500, s_BAR) :
             o \in {1, 2}, n \in {1, 2}, q \in {5, 6} }
    [] fn = "SEntry21_IIISSSSSSSSSTSDDDDIIS_Idx236" ->
         { CustomerRow(c, d, 1) : c \in {1, 3}, d \in {1, 2} }

\* two rows handed to an index
HashInit ==
  /\ LoadInit!1 /\ LoadInit!2 /\ LoadInit!3 /\ LoadInit!4 /\ LoadInit!5
  /\ LoadInit!6 /\ LoadInit!7 /\ LoadInit!8 /\ LoadInit!9
  /\ i = 0
  /\ prg \in UNION { { [id |-> "ROWS", fn |-> fn, x |-> x, y |-> y] :
                         x \in HashRows(fn), y \in HashRows(fn) } :
                     fn \in {"SEntry8_IIIIITDS_Idx", "SEntry8_IIIITIIB_Idx123",
                             "SEntry8_IIIITIIB_Idx234", "SEntry3_III_Idx123",
                             "SEntry3_III_Idx23", "SEntry10_IIIIIITIDS_Idx1234",
                             "SEntry10_IIIIIITIDS_Idx123",
                             "SEntry21_IIISSSSSSSSSTSDDDDIIS_Idx236"} }
  /\ fault = FALSE
  /\ wPaid = [w \in LoadedWarehouses |-> 0]
  /\ cPaid = [k \in CustomerKeys |-> 0]

\* the index takes the hash of both rows and compares them
hashAndCmp ==
  /\ prg.id = "ROWS"
  /\ prg' = [id |-> "HASH", fn |-> prg.fn, x |-> prg.x, y |-> prg.y,
             hx |-> hash(prg.fn, prg.x), hy |-> hash(prg.fn, prg.y),
             cmp |-> cmp(prg.fn, prg.x, prg.y)]
  /\ UNCHANGED <<tables, i, fault, wPaid, cPaid>>

HashSpec == HashInit /\ [][hashAndCmp]_vars

\* C35: for every hash index, two rows that cmp() reports equal have the same
\* 32-bit hash; for the history index this holds of rows that are equal
\* because a field is unset and of rows that differ only in h_data.
C35_HashConsistentWithCmp ==
  (prg.id = "HASH" /\ prg.cmp = 0) => prg.hx = prg.hy

\* C36: loaded with every s_quantity >= 1 and running NewOrder lines of
\* quantities in 1..91, every stock row keeps s_quantity >= 1 in every
\* reachable state, and a further line of any quantity in 1..91 would leave it
\* >= 1 too: the 91 added never leaves a stock of zero or less.
C36_StockStaysPositive ==
  \A q \in {stockTbl.rows[h].s_quantity : h \in Stored(stockTbl)} :
     /\ q >= 1
     /\ \A ol_quantity \in 1..Replenish : StockTake(q, ol_quantity) >= 1

\* a NewOrder line took all a stock row held and the row was refilled to 91
C36_Witness ==
  /\ prg.id = "NEWORDER"
  /\ \E h \in Stored(stockTbl) : stockTbl.rows[h].s_quantity = Replenish

\* the order rows of district (w, d) that have a carrier
DeliveredOrders(w, d) ==
  {g \in OrdersOf(orderTbl, w, d) : orderTbl.rows[g].o_carrier_id # NoCarrier}

\* the step keeps the carrier of order row g and the delivery date of each of
\* its lines
DeliveryKept(w, d, g) ==
  /\ g \in Stored(orderTbl')
  /\ orderTbl'.rows[g].o_carrier_id = orderTbl.rows[g].o_carrier_id
  /\ \A h \in LinesOf(orderLineTbl, w, d, orderTbl.rows[g].o_id) :
        /\ h \in Stored(orderLineTbl')
        /\ orderLineTbl'.rows[h].ol_delivery_d = orderLineTbl.rows[h].ol_delivery_d

\* the ol_amount total of the orders of customer row c among the orders of
\* district (w, d) with the ids carried, those whose carrier the step sets
CreditedTo(w, d, c, carried) ==
  SumAmount(orderLineTbl,
            UNION {LinesOf(orderLineTbl, w, d, orderTbl.rows[g].o_id) :
                     g \in {g \in OrdersOf(orderTbl, w, d) :
                              /\ orderTbl.rows[g].o_id \in carried
                              /\ orderTbl.rows[g].o_c_id = customerTbl.rows[c].c_id}})

\* C37: each order is delivered at most once.  A step of any transaction
\* keeps the o_carrier_id of every order that has a carrier and the
\* ol_delivery_d of its lines; it sets a carrier only on orders that had none;
\* and, Payment aside (which sets no carrier), it changes the balance of a
\* customer by just the ol_amount total of that customer's orders whose
\* carrier it sets, so the total of an order is added once.
C37_DeliveredOnce ==
  [][\A w \in LoadedWarehouses, d \in LoadedDistricts :
       /\ \A g \in DeliveredOrders(w, d) : DeliveryKept(w, d, g)
       /\ \A carried \in {CarriedIds(w, d)} :
            /\ PaymentStep => carried = {}
            /\ ~PaymentStep =>
                 \A c \in CustomersOf(customerTbl, w, d) :
                   customerTbl'.rows[c].c_balance
                     = customerTbl.rows[c].c_balance + CreditedTo(w, d, c, carried)]_vars

\* a second Delivery took order 3 of district 2 after the first had taken
\* order 2, which still has its carrier
C37_Witness ==
  /\ i = 2
  /\ prg.id = "DELIVERY"
  /\ prg.orderIDs[2] = 3
  /\ \E g \in DeliveredOrders(1, 2) : orderTbl.rows[g].o_id = 2
  /\ PendingIds(1, 2) = {}

\* a customer row with c_balance and c_data blanked
BesidesBalanceAndData(row) == [row EXCEPT !.c_balance = 0, !.c_data = <<>>]

\* C38: a Payment changes no field of the customer it selected other than
\* c_balance, and c_data when c_credit contains "BC": c_ytd_payment,
\* c_payment_cnt, c_delivery_cnt, c_last and the key fields stay, and every
\* other customer row stays as it was.
C38_PaymentTouchesBalanceOnly ==
  [][PaymentStep =>
       LET c == prg'.ite15946
       IN /\ Stored(customerTbl') = Stored(customerTbl)
          /\ \A h \in Stored(customerTbl) \ {c} :
                customerTbl'.rows[h] = customerTbl.rows[h]
          /\ BesidesBalanceAndData(customerTbl'.rows[c])
                = BesidesBalanceAndData(customerTbl.rows[c])
          /\ customerTbl'.rows[c].c_balance # customerTbl.rows[c].c_balance
          /\ ~PaidCustomerIsBC =>
                customerTbl'.rows[c].c_data = customerTbl.rows[c].c_data]_vars

\* a Payment by name selected a "BC" customer: its balance and c_data are new,
\* its payment count and year-to-date payment are the loaded ones
C38_Witness ==
  /\ prg.id = "PAYMENTBYNAME"
  /\ i = 1
  /\ LET c == customerTbl.rows[prg.ite15946]
         loaded == CustomerRow(c.c_id, c.c_d_id, c.c_w_id)
     IN /\ Contains(c.c_credit, s_BC)
        /\ c.c_data # loaded.c_data
        /\ c.c_balance = loaded.c_balance + prg.h_amount
        /\ c.c_payment_cnt = loaded.c_payment_cnt
        /\ c.c_ytd_payment = loaded.c_ytd_payment

\* district (W, D) holds the order row of its least pending order id and the
\* customer row (o_c_id, D, W) of that order
PendingOrderHasRows(W, D) ==
  LET o == LeastOrderId(newOrderTbl, NewOrdersOf(newOrderTbl, W, D))
  IN \E g \in OrdersOf(orderTbl, W, D) :
       /\ orderTbl.rows[g].o_id = o
       /\ \E c \in CustomersOf(customerTbl, W, D) :
             customerTbl.rows[c].c_id = orderTbl.rows[g].o_c_id

\* C39: from the loaded state, in every Delivery step of every run the get
\* of the order row of the new_order row just removed and the get of the
\* customer (order.o_c_id, D, W) both find a row: the step goes through no
\* null lookup result.
C39_DeliveryLookupsFind ==
  [][DeliveryStep =>
       /\ fault' = FALSE
       /\ \A D \in 1..NumDistricts :
             NewOrdersOf(newOrderTbl, prg'.w_id, D) # {} =>
               PendingOrderHasRows(prg'.w_id, D)]_vars

\* a Delivery found the order a NewOrder had entered in district 1 and the
\* customer of that order
C39_Witness ==
  /\ i = 2
  /\ prg.id = "DELIVERY"
  /\ ~fault
  /\ prg.orderIDs[1] = LoadedNextOrderId(1)
  /\ \E g \in DeliveredOrders(1, 1) :
        /\ orderTbl.rows[g].o_id = LoadedNextOrderId(1)
        /\ \E c \in CustomersOf(customerTbl, 1, 1) :
              /\ customerTbl.rows[c].c_id = orderTbl.rows[g].o_c_id
              /\ customerTbl.rows[c].c_delivery_cnt = 1

=============================================================================
